---- MODULE Spec2Model ----
(***************************************************************************)
(* Fork-choice and chain-management engine of the Purple node              *)
(* (chain/src/chain.rs, Chain<B>), instantiated with the DummyBlock of the *)
(* test module and the cfg(test) constants of the Block trait.             *)
(*                                                                         *)
(* A block is identified by its hash (a small integer); its parent hash    *)
(* and height are read from the block universe `blocks`.  The engine is    *)
(* one record `c` threaded through the operators that model the methods of *)
(* Chain; the state variables are the fields of that record.  A Rust panic *)
(* (unwrap on None, failed assert!) sets the field `fatal` and keeps the   *)
(* mutations made so far.                                                  *)
(***************************************************************************)
EXTENDS Integers, Sequences, FiniteSets, TLC

\* ---------------------------------------------------------------- constants
MAX_ORPHANS == 20
SWITCH_OFFSET == 0
MIN_HEIGHT == 10
MAX_HEIGHT == 10
CHECKPOINT_INTERVAL == 10
MAX_CHECKPOINTS == 10

\* Hash::NULL, the hash (and parent hash) of the genesis block.
NULL == 0
\* Option::None for Option<u64> and Option<Hash>.
None == -1

\* ------------------------------------------------------------------- bounds
\* Length of the single-path universe.
MaxPath == 6
\* Number of blocks of the generated tree universes.
MaxTree == 4
\* Length of the path that crosses the checkpoint interval and the height
\* window.
MaxLong == 12
\* Number of blocks with a parent that is never passed, one more than the
\* orphan pool may hold.
MaxFill == 21
\* Number of blocks of the stress DAG that arrive in any order; the blocks
\* left then arrive in the order of their hashes, parents first.
MaxShuffled == 8
\* Number of blocks with a wrong height or a parent below the tip that
\* are passed beside the path of CHECKPOINT_INTERVAL blocks.
MaxOdd == 4
\* Length of the path that stores one checkpoint more than MAX_CHECKPOINTS.
MaxGrow == 110
\* Number of blocks of the checkpoint DAG that arrive in the order of
\* their heights; the blocks above arrive in any order.
MaxBase == 5

\* Number of blocks of the trees whose blocks declare their own heights,
\* and the largest height a block declares.
MaxSkew == 3
MaxDeclared == 4

VARIABLES
    blocks,                      \* the block universe: hash -> [parent, height]
    db,                          \* block store: set of hashes written
    db_heights,                  \* height index: height -> hash
    db_canonical_height,         \* value under CANONICAL_HEIGHT_KEY
    height,
    canonical_tip,
    canonical_tip_state,
    orphan_pool,
    max_orphan_height,
    heights_mapping,
    disk_heights_checkpoints,
    last_checkpoint_height,
    earliest_checkpoint_height,
    validations_mapping,
    disconnected_heads_mapping,
    disconnected_heads_heights,
    disconnected_tips_mapping,
    valid_tips,
    valid_tips_states,
    disk,                        \* checkpoints on disk: id -> ChainState
    fatal,                       \* "" or the panic that ended the engine
    lastOp,                      \* the last call and its result
    calls,                       \* blocks passed to append_block, and those accepted
    trip,                        \* the rewind whose stripped blocks are being re-appended
    shared                       \* the chain lock of ChainRef, the threads inside it, the block cache

vars == <<blocks, db, db_heights, db_canonical_height, height, canonical_tip,
          canonical_tip_state, orphan_pool, max_orphan_height, heights_mapping,
          disk_heights_checkpoints, last_checkpoint_height,
          earliest_checkpoint_height, validations_mapping,
          disconnected_heads_mapping, disconnected_heads_heights,
          disconnected_tips_mapping, valid_tips, valid_tips_states, disk,
          fatal, lastOp, calls, trip, shared>>

\* ------------------------------------------------------------ map helpers
EmptyMap == [x \in {} |-> 0]
Put(f, k, v) == [x \in (DOMAIN f) \cup {k} |-> IF x = k THEN v ELSE f[x]]
Del(f, k) == [x \in (DOMAIN f) \ {k} |-> f[x]]
Has(f, k) == k \in DOMAIN f
Max(S) == CHOOSE x \in S : \A y \in S : y <= x

\* ------------------------------------------------------------------ blocks
\* DummyBlock::genesis: hash NULL, parent NULL, height 0.
Hashes == DOMAIN blocks
parent_hash(h) == IF h = NULL THEN NULL ELSE blocks[h].parent
block_height(h) == IF h = NULL THEN 0 ELSE blocks[h].height

\* DummyCheckpoint: the state of a tip.  height() is the number of blocks
\* applied; the sequence records which blocks they were.
genesis_state == <<>>
state_height(st) == Len(st)

\* Err(ChainErr::BadAppendCondition); no state holds the entry None.
Err == <<None>>
IsErr(st) == st = Err

\* DummyBlock::append_condition
append_condition(b, st) ==
    IF state_height(st) = block_height(b) - 1 THEN Append(st, b) ELSE Err

\* ------------------------------------------------------------- the engine
Self == [db |-> db, db_heights |-> db_heights,
         db_canonical_height |-> db_canonical_height, height |-> height,
         canonical_tip |-> canonical_tip,
         canonical_tip_state |-> canonical_tip_state,
         orphan_pool |-> orphan_pool, max_orphan_height |-> max_orphan_height,
         heights_mapping |-> heights_mapping,
         disk_heights_checkpoints |-> disk_heights_checkpoints,
         last_checkpoint_height |-> last_checkpoint_height,
         earliest_checkpoint_height |-> earliest_checkpoint_height,
         validations_mapping |-> validations_mapping,
         disconnected_heads_mapping |-> disconnected_heads_mapping,
         disconnected_heads_heights |-> disconnected_heads_heights,
         disconnected_tips_mapping |-> disconnected_tips_mapping,
         valid_tips |-> valid_tips, valid_tips_states |-> valid_tips_states,
         disk |-> disk, fatal |-> fatal]

\* Chain::new on an empty store.
NewChain == [db |-> {}, db_heights |-> EmptyMap,
             db_canonical_height |-> 0, height |-> 0,
             canonical_tip |-> NULL,
             canonical_tip_state |-> genesis_state,
             orphan_pool |-> {}, max_orphan_height |-> None,
             heights_mapping |-> EmptyMap,
             disk_heights_checkpoints |-> EmptyMap,
             last_checkpoint_height |-> None,
             earliest_checkpoint_height |-> None,
             validations_mapping |-> EmptyMap,
             disconnected_heads_mapping |-> EmptyMap,
             disconnected_heads_heights |-> EmptyMap,
             disconnected_tips_mapping |-> EmptyMap,
             valid_tips |-> {}, valid_tips_states |-> EmptyMap,
             disk |-> EmptyMap, fatal |-> ""]

\* Chain::new over the store of the engine c, with the state st passed by
\* the caller.  No call writes TIP_KEY, EARLIEST_CHECKPOINT_KEY or
\* LAST_CHECKPOINT_KEY, so the three lookups find nothing; the height is
\* read from CANONICAL_HEIGHT_KEY.
chain_new(c, st) ==
    [NewChain EXCEPT !.db = c.db,
                     !.db_heights = c.db_heights,
                     !.db_canonical_height = c.db_canonical_height,
                     !.disk = c.disk,
                     !.canonical_tip = NULL,
                     !.canonical_tip_state = st,
                     !.height = c.db_canonical_height,
                     !.earliest_checkpoint_height = None,
                     !.last_checkpoint_height = None]

Ok(c) == c.fatal = ""
Panic(c, msg) == IF Ok(c) THEN [c EXCEPT !.fatal = msg] ELSE c
\* Sequencing: a panicked engine runs no further statement.
Then(c, F(_)) == IF Ok(c) THEN F(c) ELSE c
ThenAll(S, F(_)) == UNION { IF Ok(c) THEN F(c) ELSE {c} : c \in S }

\* heights_mapping entry insert (overwrites), as in rewind and the
\* unknown-parent arm of append_block.
heights_insert(hm, h, b, inv) ==
    IF Has(hm, h) THEN [hm EXCEPT ![h] = Put(hm[h], b, inv)]
    ELSE Put(hm, h, Put(EmptyMap, b, inv))

update_max_orphan_height(c, new_height) ==
    IF c.max_orphan_height = None THEN [c EXCEPT !.max_orphan_height = new_height]
    ELSE IF new_height > c.max_orphan_height
         THEN [c EXCEPT !.max_orphan_height = new_height]
         ELSE c

\* The backwards scan of write_block: the first height below max_height
\* that has an entry in heights_mapping, None when 0 is reached.
RECURSIVE scan_max_orphan_height(_, _)
scan_max_orphan_height(hm, current) ==
    IF current <= 0 THEN None
    ELSE IF Has(hm, current) THEN current
    ELSE scan_max_orphan_height(hm, current - 1)

\* Fault variant of write_block: the height index entry of the new block
\* is not written and the orphan bookkeeping of its height is skipped.
write_block_no_index(c, b) ==
    LET h == c.db_canonical_height + 1
    IN  [c EXCEPT !.db = @ \cup {b}, !.canonical_tip = b, !.height = h,
                  !.db_canonical_height = h,
                  !.orphan_pool = @ \ {b},
                  !.validations_mapping = Del(@, b),
                  !.valid_tips = @ \ {b},
                  !.valid_tips_states = Del(@, b)]
write_block(c, b) ==
    IF Has(c.disconnected_heads_mapping, b) THEN Panic(c, "write_block: block is a disconnected head")
    ELSE IF Has(c.disconnected_tips_mapping, b) THEN Panic(c, "write_block: block is a disconnected tip")
    ELSE IF parent_hash(b) # c.canonical_tip THEN Panic(c, "write_block: parent is not the canonical tip")
    ELSE
    LET h == c.db_canonical_height + 1
        bh == block_height(b)
        hm == IF Has(c.heights_mapping, bh)
              THEN [c.heights_mapping EXCEPT ![bh] = Del(@, b)]
              ELSE c.heights_mapping
        moh == IF c.max_orphan_height # None /\ bh = c.max_orphan_height
               THEN scan_max_orphan_height(hm, c.max_orphan_height - 1)
               ELSE c.max_orphan_height
    IN  [c EXCEPT !.db = @ \cup {b}, !.canonical_tip = b, !.height = h,
                  !.db_canonical_height = h, !.db_heights = Put(@, h, b),
                  !.orphan_pool = @ \ {b},
                  !.validations_mapping = Del(@, b),
                  !.heights_mapping = hm,
                  !.valid_tips = @ \ {b},
                  !.valid_tips_states = Del(@, b),
                  !.max_orphan_height = moh]

write_orphan(c, b, orphan_type, inverse_height) ==
    LET h == block_height(b)
        hm == IF Has(c.heights_mapping, h)
              THEN IF Has(c.heights_mapping[h], b) THEN c.heights_mapping
                   ELSE [c.heights_mapping EXCEPT ![h] = Put(@, b, inverse_height)]
              ELSE Put(c.heights_mapping, h, Put(EmptyMap, b, inverse_height))
        c1 == [c EXCEPT !.valid_tips = IF orphan_type = "ValidChainTip" THEN @ \cup {b} ELSE @,
                        !.heights_mapping = hm,
                        !.orphan_pool = @ \cup {b}]
        c2 == update_max_orphan_height(c1, h)
    IN  [c2 EXCEPT !.validations_mapping = Put(@, b, orphan_type)]

\* ChainState::checkpoint: stores the state on disk under a new id.
checkpoint_id(c) ==
    Max({0} \cup DOMAIN c.disk
            \cup {c.disk_heights_checkpoints[h] : h \in DOMAIN c.disk_heights_checkpoints}) + 1
checkpoint(c, st) == [c EXCEPT !.disk = Put(@, checkpoint_id(c), st)]

\* The "Perform checkpoint" block that follows a write at height h.
perform_checkpoint(c, h, st) ==
    LET last == IF c.last_checkpoint_height = None THEN 0 ELSE c.last_checkpoint_height
    IN  IF h < last THEN Panic(c, "attempt to subtract with overflow")
        ELSE IF h - last = CHECKPOINT_INTERVAL
        THEN LET id == checkpoint_id(c)
                 c1 == checkpoint(c, st)
             IN  [c1 EXCEPT !.earliest_checkpoint_height = IF @ = None THEN h ELSE @,
                            !.last_checkpoint_height = h,
                            !.disk_heights_checkpoints = Put(@, h, id)]
        ELSE c

\* ------------------------------------------------------------ state replay
\* Results are [st |-> state, fatal |-> "" or the panic].
RECURSIVE replay(_, _, _, _)
replay(c, st, cur_height, target_height) ==
    IF ~Has(c.db_heights, cur_height) THEN [st |-> st, fatal |-> "fetch_next_state: no height index entry"]
    ELSE LET b == c.db_heights[cur_height]
         IN  IF b \notin c.db THEN [st |-> st, fatal |-> "fetch_next_state: block not stored"]
             ELSE LET nst == append_condition(b, st)
                  IN  IF IsErr(nst) THEN [st |-> st, fatal |-> "fetch_next_state: append_condition failed"]
                      ELSE IF cur_height = target_height THEN [st |-> nst, fatal |-> ""]
                      ELSE replay(c, nst, cur_height + 1, target_height)

fetch_next_state(c, source_height, target_height) ==
    IF target_height > c.height THEN [st |-> Err, fatal |-> "fetch_next_state: target_height > height"]
    ELSE IF source_height > target_height THEN [st |-> Err, fatal |-> "fetch_next_state: height > target_height"]
    ELSE IF source_height = 0 THEN [st |-> genesis_state, fatal |-> ""]
    ELSE IF source_height < CHECKPOINT_INTERVAL
         THEN replay(c, genesis_state, 1, target_height)
    ELSE IF ~Has(c.disk_heights_checkpoints, source_height)
         THEN [st |-> Err, fatal |-> "fetch_next_state: no checkpoint id"]
    ELSE IF ~Has(c.disk, c.disk_heights_checkpoints[source_height])
         THEN [st |-> Err, fatal |-> "Could not find disk state!"]
    ELSE LET st == c.disk[c.disk_heights_checkpoints[source_height]]
         IN  IF source_height = target_height THEN [st |-> st, fatal |-> ""]
             ELSE replay(c, st, source_height + 1, target_height)

\* The search loop: walks down from the last checkpoint by whole intervals.
\* -2 stands for the u64 underflow of `current - interval`.
RECURSIVE search_checkpoint(_, _)
search_checkpoint(current, target_height) ==
    IF current < CHECKPOINT_INTERVAL THEN -2
    ELSE IF current - CHECKPOINT_INTERVAL < target_height THEN current
    ELSE search_checkpoint(current - CHECKPOINT_INTERVAL, target_height)

search_fetch_next_state(c, target_height) ==
    IF c.last_checkpoint_height # None
    THEN LET h == search_checkpoint(c.last_checkpoint_height, target_height)
         IN  IF h = -2 THEN [st |-> Err, fatal |-> "attempt to subtract with overflow"]
             ELSE fetch_next_state(c, h, target_height)
    ELSE fetch_next_state(c, target_height, target_height)

\* ------------------------------------------------------------------ rewind
\* The checkpoint clean-up made for each parent stripped by rewind.
rewind_checkpoints(c, current) ==
    IF c.last_checkpoint_height # None /\ c.earliest_checkpoint_height # None
    THEN IF block_height(current) = 0 THEN Panic(c, "attempt to subtract with overflow")
         ELSE
         LET last == c.last_checkpoint_height
             earliest == c.earliest_checkpoint_height
             c1 == IF block_height(current) - 1 = last
                   THEN IF ~Has(c.disk_heights_checkpoints, last)
                        THEN Panic(c, "rewind: no checkpoint id at last_checkpoint_height")
                        ELSE IF ~Has(c.disk, c.disk_heights_checkpoints[last])
                        THEN Panic([c EXCEPT !.disk_heights_checkpoints = Del(@, last)],
                                   "rewind: delete_checkpoint failed")
                        ELSE [c EXCEPT !.disk_heights_checkpoints = Del(@, last),
                                       !.disk = Del(@, c.disk_heights_checkpoints[last])]
                   ELSE c
         IN  IF Ok(c1) /\ last = earliest
             THEN [c1 EXCEPT !.earliest_checkpoint_height = None,
                             !.last_checkpoint_height = None]
             ELSE c1
    ELSE c

\* Moves one stripped block into the orphan pool.
rewind_strip(c, b, status, inverse_height) ==
    LET c1 == [c EXCEPT !.db = @ \ {b},
                        !.db_heights = Del(@, block_height(b)),
                        !.orphan_pool = @ \cup {b},
                        !.validations_mapping = Put(@, b, status),
                        !.heights_mapping = heights_insert(@, block_height(b), b, inverse_height)]
    IN  update_max_orphan_height(c1, block_height(b))

\* The parent of `current` leaves the store, unless it is not there.
rewind_parent(c, ph, inverse_height) ==
    IF ph \notin c.db THEN Panic(c, "rewind: parent is not stored")
    ELSE rewind_strip(c, ph, "BelongsToValidChain", inverse_height)

RECURSIVE rewind_loop(_, _, _, _)
rewind_loop(c, current, inverse_height, block_hash) ==
    IF ~Ok(c) \/ parent_hash(current) = block_hash THEN c
    ELSE rewind_loop(Then(rewind_checkpoints(c, current),
                          LAMBDA x : rewind_parent(x, parent_hash(current), inverse_height)),
                     parent_hash(current), inverse_height + 1, block_hash)

\* Fault variant of rewind: the tip is moved without stripping any block.
rewind_keep_tip(c, block_hash) ==
    [c |-> [c EXCEPT !.height = block_height(block_hash),
                     !.db_canonical_height = block_height(block_hash),
                     !.canonical_tip = block_hash], res |-> "Ok"]
\* Fault variant of rewind_tip: the old tip gets its status but is not
\* registered in valid_tips.
rewind_tip_unregistered(c) ==
    rewind_strip(c, c.canonical_tip, "ValidChainTip", 0)
\* The old tip leaves the store and becomes a valid chain tip.
rewind_tip(c) ==
    [rewind_strip(c, c.canonical_tip, "ValidChainTip", 0)
        EXCEPT !.valid_tips = @ \cup {c.canonical_tip},
               !.valid_tips_states = Put(@, c.canonical_tip, c.canonical_tip_state)]

\* The state and the tip are set last.
rewind_set_tip(c, f, block_hash) ==
    IF f.fatal # "" THEN Panic(c, f.fatal)
    ELSE [c EXCEPT !.canonical_tip_state = f.st, !.canonical_tip = block_hash]

rewind_set_height(c, block_hash) ==
    rewind_set_tip([c EXCEPT !.height = block_height(block_hash),
                             !.db_canonical_height = block_height(block_hash)],
                   search_fetch_next_state(
                       [c EXCEPT !.height = block_height(block_hash),
                                 !.db_canonical_height = block_height(block_hash)],
                       block_height(block_hash)),
                   block_hash)

\* Fault variant of rewind: the target is not looked up in the store.
rewind_unchecked(c, block_hash) ==
    [c |-> Then(rewind_loop(rewind_tip(c), c.canonical_tip, 1, block_hash),
                LAMBDA x : rewind_set_height(x, block_hash)),
     res |-> "Ok"]
\* Result: [c |-> engine, res |-> "Ok" or the ChainErr].
rewind(c, block_hash) ==
    IF block_hash # NULL /\ block_hash \notin c.db THEN [c |-> c, res |-> "NoSuchBlock"]
    ELSE [c |-> Then(rewind_loop(rewind_tip(c), c.canonical_tip, 1, block_hash),
                     LAMBDA x : rewind_set_height(x, block_hash)),
          res |-> "Ok"]

\* -------------------------------------------------------- traverse_inverse
RECURSIVE traverse_inverse_loop(_, _, _, _)
traverse_inverse_loop(c, current, cur_inverse, make_valid) ==
    LET p == parent_hash(current)
        ph == block_height(p)
    IN  IF p \notin c.orphan_pool THEN c
        ELSE IF p = current THEN Panic(c, "traverse_inverse: the parent walk never ends")
        ELSE IF ~Has(c.heights_mapping, ph) THEN Panic(c, "traverse_inverse: no heights_mapping entry")
        ELSE IF ~Has(c.heights_mapping[ph], p) THEN Panic(c, "traverse_inverse: no inverse height")
        ELSE LET old == c.heights_mapping[ph][p]
                 c1 == [c EXCEPT !.heights_mapping[ph][p] =
                                      IF old < cur_inverse + 1 THEN cur_inverse + 1 ELSE old,
                                 !.validations_mapping =
                                      IF make_valid THEN Put(@, p, "BelongsToValidChain") ELSE @]
             IN  traverse_inverse_loop(c1, p, cur_inverse + 1, make_valid)

traverse_inverse(c, orphan, start_height, make_valid) ==
    IF make_valid /\ start_height # 0 THEN Panic(c, "traverse_inverse: start_height is not 0")
    ELSE LET c1 == IF make_valid
                   THEN [c EXCEPT !.validations_mapping = Put(@, orphan, "ValidChainTip")]
                   ELSE c
         IN  traverse_inverse_loop(c1, orphan, start_height, make_valid)

\* ---------------------------------------------------------- make_valid_tips
DelAll(f, K) == [x \in (DOMAIN f) \ K |-> f[x]]
\* Marks the blocks of `previous` (hash -> state) as valid chain tips.
make_tips(c, previous, tips) ==
    IF \E t \in tips : ~Has(c.validations_mapping, t)
    THEN Panic(c, "make_valid_tips: tip has no validation status")
    ELSE [c EXCEPT !.validations_mapping =
                        [x \in DOMAIN @ |-> IF x \in tips THEN "ValidChainTip" ELSE @[x]],
                   !.disconnected_tips_mapping = DelAll(@, tips),
                   !.disconnected_heads_mapping = DelAll(@, tips),
                   !.valid_tips = @ \cup tips,
                   !.valid_tips_states =
                        [x \in (DOMAIN @) \cup tips |-> IF x \in tips THEN previous[x] ELSE @[x]]]

RECURSIVE make_valid_tips_loop(_, _, _, _)
make_valid_tips_loop(c, head, cur_height, previous) ==
    IF ~Has(c.heights_mapping, cur_height)
    THEN make_tips(c, previous, DOMAIN previous)
    ELSE
    LET entry == DOMAIN c.heights_mapping[cur_height]
        matched == {m \in entry \cap c.orphan_pool :
                        /\ Has(previous, parent_hash(m))
                        /\ ~IsErr(append_condition(m, previous[parent_hash(m)]))}
        matched_set == {parent_hash(m) : m \in matched}
        new_previous_set == [m \in matched |-> append_condition(m, previous[parent_hash(m)])]
    IN  IF ~(entry \subseteq c.orphan_pool)
        THEN Panic(c, "make_valid_tips: heights_mapping names a block that is not an orphan")
        ELSE IF \E m \in matched : ~Has(c.validations_mapping, m)
        THEN Panic(c, "make_valid_tips: block has no validation status")
        ELSE
        LET c1 == [c EXCEPT !.validations_mapping =
                                [x \in DOMAIN @ |->
                                    IF x \in matched \/ (x = head /\ matched # {})
                                    THEN "BelongsToValidChain" ELSE @[x]],
                            !.valid_tips_states = DelAll(@, matched_set),
                            !.valid_tips = @ \ matched_set,
                            !.disconnected_heads_mapping = DelAll(@, matched_set),
                            !.disconnected_tips_mapping = DelAll(@, matched_set)]
            c2 == make_tips(c1, previous, (DOMAIN previous) \ matched_set)
        IN  IF ~Ok(c2) THEN c2
            ELSE make_valid_tips_loop(c2, head, cur_height + 1, new_previous_set)

\* Fault variant of make_valid_tips: only the head is made valid, its
\* descendants keep their disconnected statuses.
make_valid_tips_head_only(c, head, head_state) ==
    IF ~Has(c.disconnected_heads_mapping, head) THEN c
    ELSE [c EXCEPT !.disconnected_heads_mapping = Del(@, head),
                   !.valid_tips = @ \cup {head},
                   !.valid_tips_states = Put(@, head, head_state),
                   !.disconnected_heads_heights = Del(@, head),
                   !.disconnected_tips_mapping = Del(@, head),
                   !.validations_mapping = Put(@, head, "ValidChainTip")]
make_valid_tips(c, head, head_state) ==
    IF ~Has(c.disconnected_heads_mapping, head) THEN c
    ELSE LET c0 == [c EXCEPT !.disconnected_heads_mapping = Del(@, head)]
         IN  IF head \notin c.orphan_pool
             THEN Panic(c0, "make_valid_tips: head is not an orphan")
             ELSE
             LET c1 == [c0 EXCEPT !.valid_tips = @ \cup {head},
                                  !.valid_tips_states = Put(@, head, head_state),
                                  !.disconnected_heads_heights = Del(@, head),
                                  !.disconnected_tips_mapping = Del(@, head)]
             IN  IF ~Has(c1.validations_mapping, head)
                 THEN Panic(c1, "make_valid_tips: head has no validation status")
                 ELSE make_valid_tips_loop(
                          [c1 EXCEPT !.validations_mapping[head] = "ValidChainTip"],
                          head, block_height(head) + 1, Put(EmptyMap, head, head_state))

\* ------------------------------------------------------------ attempt_attach
RECURSIVE traverse_all(_, _)
\* traverse_inverse(tip, 0, false) for every tip of the set; the updates
\* are maxima, so the order does not matter.
traverse_all(c, tips) ==
    IF tips = {} \/ ~Ok(c) THEN c
    ELSE LET t == CHOOSE x \in tips : TRUE
         IN  traverse_all(traverse_inverse(c, t, 0, FALSE), tips \ {t})

\* Result: a set of [c |-> engine, status |-> final status of the tip]; one
\* element per outcome of the HashMap/HashSet iteration order, which
\* decides the tip recorded in disconnected_heads_heights among the
\* deepest merged tips.
attempt_attach(c, tip_hash, initial_status) ==
    IF ~Has(c.disconnected_tips_mapping, tip_hash)
    THEN {[c |-> Panic(c, "attempt_attach: tip has no head"), status |-> initial_status]}
    ELSE
    LET cur_head == c.disconnected_tips_mapping[tip_hash]
        others == (DOMAIN c.disconnected_heads_mapping) \ {cur_head, tip_hash}
        to_attach == {h \in others \cap c.orphan_pool : parent_hash(h) = tip_hash}
        status == IF to_attach = {} THEN initial_status ELSE "BelongsToDisconnected"
        merged == UNION {c.disconnected_heads_mapping[h] : h \in to_attach}
    IN  IF ~(others \subseteq c.orphan_pool)
        THEN {[c |-> Panic(c, "attempt_attach: head is not an orphan"), status |-> initial_status]}
        ELSE IF to_attach = {} THEN {[c |-> c, status |-> status]}
        ELSE IF \E h \in to_attach : ~Has(c.disconnected_heads_heights, h)
        THEN {[c |-> Panic(c, "attempt_attach: head has no largest height"), status |-> status]}
        ELSE
        LET cur_tips == IF Has(c.disconnected_heads_mapping, cur_head)
                        THEN c.disconnected_heads_mapping[cur_head] ELSE {}
            c1 == [c EXCEPT !.disconnected_heads_mapping =
                                Put(DelAll(@, to_attach), cur_head, (cur_tips \ {cur_head}) \cup merged),
                            !.disconnected_heads_heights = DelAll(@, to_attach),
                            !.disconnected_tips_mapping =
                                [x \in ((DOMAIN @) \ {cur_head}) \cup merged |->
                                    IF x \in merged THEN cur_head ELSE @[x]]]
        IN  IF merged = {} THEN {[c |-> c1, status |-> status]}
            ELSE IF ~(merged \subseteq c.orphan_pool)
            THEN {[c |-> Panic(c1, "attempt_attach: tip is not an orphan"), status |-> status]}
            ELSE IF ~Has(c1.disconnected_heads_heights, cur_head)
            THEN {[c |-> Panic(c1, "attempt_attach: our head has no largest height"), status |-> status]}
            ELSE
            LET largest_height == c1.disconnected_heads_heights[cur_head][1]
                maxh == Max({block_height(t) : t \in merged})
                firsts == {t \in merged : block_height(t) = maxh}
                outcomes == IF maxh > largest_height
                            THEN {[c1 EXCEPT !.disconnected_heads_heights[cur_head] = <<maxh, t>>] : t \in firsts}
                            ELSE {c1}
            IN  {[c |-> traverse_all(c2, merged), status |-> status] : c2 \in outcomes}

\* ------------------------------------------------------ attempt_attach_valid
RECURSIVE make_valid_all(_, _, _)
\* make_valid_tips for every matching head; the heads root disjoint
\* subtrees, so the order does not matter.
make_valid_all(c, heads, tip_state) ==
    IF heads = {} \/ ~Ok(c) THEN c
    ELSE LET h == CHOOSE x \in heads : TRUE
         IN  make_valid_all(make_valid_tips(c, h, append_condition(h, tip_state)),
                            heads \ {h}, tip_state)

\* Result: a set of [c, tip, inverse_height, status]; one element per
\* deepest attached tip the iteration order can select.
attempt_attach_valid(c, tip, tip_state, inverse_height, status) ==
    LET fail(msg) == {[c |-> Panic(c, msg), tip |-> tip,
                       inverse_height |-> inverse_height, status |-> status]}
    IN
    IF tip \notin c.valid_tips THEN fail("attempt_attach_valid: tip is not a valid tip")
    ELSE IF Has(c.disconnected_heads_mapping, tip) THEN fail("attempt_attach_valid: tip is a disconnected head")
    ELSE IF Has(c.disconnected_tips_mapping, tip) THEN fail("attempt_attach_valid: tip is a disconnected tip")
    ELSE
    LET c0 == IF Has(c.validations_mapping, tip) THEN c
              ELSE [c EXCEPT !.validations_mapping = Put(@, tip, status)]
        hh == c0.disconnected_heads_heights
        heads == {h \in (DOMAIN hh) \cap c0.orphan_pool : parent_hash(h) = tip}
        to_write == {h \in heads : ~IsErr(append_condition(h, tip_state))}
    IN  IF \E h \in DOMAIN hh : ~Has(c0.disconnected_heads_mapping, h)
        THEN {[c |-> Panic(c0, "attempt_attach_valid: head has no tips"), tip |-> tip,
               inverse_height |-> inverse_height, status |-> status]}
        ELSE IF \E h \in DOMAIN hh : hh[h][2] \notin c0.disconnected_heads_mapping[h]
        THEN {[c |-> Panic(c0, "attempt_attach_valid: largest tip is not a tip of its head"), tip |-> tip,
               inverse_height |-> inverse_height, status |-> status]}
        ELSE IF ~((DOMAIN hh) \subseteq c0.orphan_pool)
        THEN {[c |-> Panic(c0, "attempt_attach_valid: head is not an orphan"), tip |-> tip,
               inverse_height |-> inverse_height, status |-> status]}
        ELSE IF \E h \in to_write : hh[h][2] \notin c0.orphan_pool
        THEN {[c |-> Panic(c0, "attempt_attach_valid: largest tip is not an orphan"), tip |-> tip,
               inverse_height |-> inverse_height, status |-> status]}
        ELSE IF to_write = {}
        THEN {[c |-> traverse_inverse(c0, tip, 0, TRUE), tip |-> tip,
               inverse_height |-> inverse_height, status |-> status]}
        ELSE
        LET inverse_h(h) == hh[h][1] - block_height(tip)
            maxinv == Max({inverse_h(h) : h \in to_write})
            c1 == [c0 EXCEPT !.valid_tips = @ \ {tip},
                             !.valid_tips_states = Del(@, tip),
                             !.validations_mapping[tip] = "BelongsToValidChain"]
            c2 == make_valid_all(c1, to_write, tip_state)
            new_tips == IF maxinv > inverse_height
                        THEN {hh[h][2] : h \in {x \in to_write : inverse_h(x) = maxinv}}
                        ELSE {tip}
            new_inv == IF maxinv > inverse_height THEN maxinv ELSE inverse_height
        IN  {[c |-> IF Ok(c2) THEN traverse_inverse(c2, t, 0, TRUE) ELSE c2, tip |-> t,
              inverse_height |-> new_inv, status |-> "BelongsToValidChain"] : t \in new_tips}

\* ------------------------------------------------------------ attempt_switch
\* The horizon walk: [path |-> blocks to write in ascending order,
\* horizon |-> hash, fatal |-> "" or the panic].
RECURSIVE find_horizon(_, _, _)
find_horizon(c, current, to_write) ==
    IF current \in c.db THEN [path |-> to_write, horizon |-> current, fatal |-> ""]
    ELSE IF current \notin c.orphan_pool
    THEN [path |-> to_write, horizon |-> current, fatal |-> "attempt_switch: ancestor is neither stored nor an orphan"]
    ELSE IF parent_hash(current) = current
    THEN [path |-> to_write, horizon |-> current, fatal |-> "attempt_switch: the horizon walk never ends"]
    ELSE find_horizon(c, parent_hash(current), <<current>> \o to_write)

RECURSIVE write_all(_, _, _)
write_all(c, to_write, horizon) ==
    IF to_write = <<>> \/ ~Ok(c) THEN c
    ELSE LET b == Head(to_write)
         IN  IF b = horizon THEN write_all(c, Tail(to_write), horizon)
             ELSE write_all(
                     write_block([c EXCEPT !.disconnected_heads_mapping = Del(@, b),
                                           !.disconnected_tips_mapping = Del(@, b),
                                           !.disconnected_heads_heights = Del(@, b)], b),
                     Tail(to_write), horizon)

\* Fault variant of switch_write: the canonical state is left as it was
\* before the switch.
switch_write_stale_state(c, candidate_tip, w) ==
    IF ~Has(c.valid_tips_states, candidate_tip)
    THEN Panic(c, "attempt_switch: candidate has no state")
    ELSE write_all([c EXCEPT !.valid_tips_states = Del(@, candidate_tip)], w.path, w.horizon)
\* The candidate's state becomes the canonical state and its chain is
\* written from the horizon up.
switch_write(c, candidate_tip, w) ==
    IF ~Has(c.valid_tips_states, candidate_tip)
    THEN Panic(c, "attempt_switch: candidate has no state")
    ELSE write_all([c EXCEPT !.canonical_tip_state = c.valid_tips_states[candidate_tip],
                             !.valid_tips_states = Del(@, candidate_tip)],
                   w.path, w.horizon)

switch_rewind(c, r) ==
    IF r.res # "Ok" THEN Panic(r.c, "attempt_switch: rewind failed") ELSE r.c

switch_to(c, candidate_tip, w) ==
    IF w.fatal # "" THEN Panic(c, w.fatal)
    ELSE Then(switch_rewind(c, rewind(c, w.horizon)),
              LAMBDA x : switch_write(x, candidate_tip, w))

\* Fault variant of attempt_switch: the candidate is never switched to.
attempt_switch_never(c, candidate_tip) ==
    IF candidate_tip \notin c.valid_tips THEN Panic(c, "attempt_switch: candidate is not a valid tip")
    ELSE c
\* Fault variant of attempt_switch: a candidate as high as the canonical
\* height plus SWITCH_OFFSET is switched to as well.
attempt_switch_at_equal(c, candidate_tip) ==
    IF candidate_tip \notin c.valid_tips THEN Panic(c, "attempt_switch: candidate is not a valid tip")
    ELSE IF Has(c.disconnected_heads_mapping, candidate_tip) THEN Panic(c, "attempt_switch: candidate is a disconnected head")
    ELSE IF Has(c.disconnected_tips_mapping, candidate_tip) THEN Panic(c, "attempt_switch: candidate is a disconnected tip")
    ELSE IF block_height(candidate_tip) >= c.height + SWITCH_OFFSET
    THEN switch_to(c, candidate_tip, find_horizon(c, parent_hash(candidate_tip), <<candidate_tip>>))
    ELSE c
attempt_switch(c, candidate_tip) ==
    IF candidate_tip \notin c.valid_tips THEN Panic(c, "attempt_switch: candidate is not a valid tip")
    ELSE IF Has(c.disconnected_heads_mapping, candidate_tip) THEN Panic(c, "attempt_switch: candidate is a disconnected head")
    ELSE IF Has(c.disconnected_tips_mapping, candidate_tip) THEN Panic(c, "attempt_switch: candidate is a disconnected tip")
    ELSE IF block_height(candidate_tip) > c.height + SWITCH_OFFSET
    THEN switch_to(c, candidate_tip, find_horizon(c, parent_hash(candidate_tip), <<candidate_tip>>))
    ELSE c

\* ----------------------------------------------------------- process_orphans
\* The branch for a height that holds several orphans.  Result: a set of
\* [c, done, pvt, next] with next one of "break", "continue" (same height
\* again) and "next"; one element per orphan the unstable sort can leave
\* last among those of greatest inverse height.
process_orphans_many(c, h, done, prev_valid_tips) ==
    LET orphans == c.heights_mapping[h]
        entry == DOMAIN orphans
        out(c1, d, pvt, next) == [c |-> c1, done |-> d, pvt |-> pvt, next |-> next]
    IN
    IF ~(entry \subseteq c.orphan_pool)
    THEN {out(Panic(c, "process_orphans: heights_mapping names a block that is not an orphan"),
              done, prev_valid_tips, "break")}
    ELSE
    LET followers == {o \in entry : parent_hash(o) = c.canonical_tip}
        buf == {o \in followers : ~IsErr(append_condition(o, c.canonical_tip_state))}
        state_of(o) == append_condition(o, c.canonical_tip_state)
        continuing == {o \in entry \ followers : parent_hash(o) \in prev_valid_tips}
    IN
    IF \E o \in continuing : ~Has(c.valid_tips_states, parent_hash(o))
    THEN {out(Panic(c, "process_orphans: valid tip has no state"), done, prev_valid_tips, "break")}
    ELSE
    LET promoted == {o \in continuing :
                        ~IsErr(append_condition(o, c.valid_tips_states[parent_hash(o)]))}
        obsolete == {parent_hash(o) : o \in promoted}
    IN
    IF \E o \in promoted \cup obsolete : ~Has(c.validations_mapping, o)
    THEN {out(Panic(c, "process_orphans: block has no validation status"), done, prev_valid_tips, "break")}
    ELSE
    LET c1 == [c EXCEPT !.validations_mapping =
                            [x \in DOMAIN @ |-> IF x \in promoted THEN "ValidChainTip"
                                                ELSE IF x \in obsolete THEN "BelongsToValidChain"
                                                ELSE @[x]],
                        !.valid_tips = (@ \cup promoted) \ obsolete,
                        !.valid_tips_states =
                            DelAll([x \in (DOMAIN @) \cup promoted |->
                                       IF x \in promoted
                                       THEN append_condition(x, c.valid_tips_states[parent_hash(x)])
                                       ELSE @[x]], obsolete)]
        pvt == (prev_valid_tips \ obsolete) \cup promoted
        \* "Place remaining tips in valid tips set"
        place(c2, rest) ==
            IF ~Ok(c2) THEN c2
            ELSE IF \E o \in rest : ~Has(c2.validations_mapping, o)
            THEN Panic(c2, "process_orphans: block has no validation status")
            ELSE [c2 EXCEPT !.validations_mapping =
                                [x \in DOMAIN @ |-> IF x \in rest THEN "ValidChainTip" ELSE @[x]],
                            !.valid_tips = @ \cup rest,
                            !.valid_tips_states =
                                [x \in (DOMAIN @) \cup rest |->
                                    IF x \in rest THEN state_of(x) ELSE @[x]]]
        written(w) ==
            LET c2 == perform_checkpoint(c1, block_height(w), state_of(w))
                c3 == Then(c2, LAMBDA x : make_valid_tips(x, w, state_of(w)))
                c4 == Then(c3, LAMBDA x : write_block([x EXCEPT !.canonical_tip_state = state_of(w)], w))
            IN  place(c4, buf \ {w})
    IN
    IF buf = {}
    THEN IF pvt = {} THEN {out(c1, done, pvt, "break")}
         ELSE IF ~done THEN {out(c1, TRUE, pvt, "continue")}
         ELSE {out(c1, done, pvt, "break")}
    ELSE IF ~done
    THEN LET top == Max({orphans[o] : o \in buf})
         IN  {out(written(w), done, pvt \cup (buf \ {w}), "next") :
                  w \in {o \in buf : orphans[o] = top}}
    ELSE {out(place(c1, buf), done, pvt \cup buf, "next")}

\* The branch for a height that holds exactly one orphan.
process_orphans_one(c, h, done, prev_valid_tips) ==
    LET o == CHOOSE x \in DOMAIN c.heights_mapping[h] : TRUE
        out(c1, d, next) == [c |-> c1, done |-> d, pvt |-> prev_valid_tips, next |-> next]
        st == append_condition(o, c.canonical_tip_state)
    IN  IF o \notin c.orphan_pool
        THEN out(Panic(c, "process_orphans: heights_mapping names a block that is not an orphan"), done, "break")
        ELSE IF parent_hash(o) # c.canonical_tip THEN out(c, done, "break")
        ELSE IF done THEN out(c, done, "break")
        ELSE IF IsErr(st) THEN out(c, TRUE, "next")
        ELSE LET c1 == make_valid_tips(c, o, st)
                 c2 == Then(c1, LAMBDA x : write_block(x, o))
                 c3 == Then(c2, LAMBDA x : perform_checkpoint(x, x.height, st))
                 c4 == Then(c3, LAMBDA x : [x EXCEPT !.canonical_tip_state = st])
             IN  out(c4, done, "next")

RECURSIVE process_orphans_loop(_, _, _, _, _)
process_orphans_loop(c, h, done, prev_valid_tips, max_height) ==
    IF ~Ok(c) \/ h > max_height THEN {c}
    ELSE IF ~Has(c.heights_mapping, h)
    THEN process_orphans_loop(c, h + 1, done, prev_valid_tips, max_height)
    ELSE
    LET n == Cardinality(DOMAIN c.heights_mapping[h])
        steps == IF n = 1 THEN {process_orphans_one(c, h, done, prev_valid_tips)}
                 ELSE IF n = 0
                 THEN {[c |-> c, pvt |-> prev_valid_tips,
                        done |-> IF prev_valid_tips = {} THEN done ELSE TRUE,
                        next |-> IF prev_valid_tips = {} \/ done THEN "break" ELSE "next"]}
                 ELSE process_orphans_many(c, h, done, prev_valid_tips)
    IN  UNION { IF s.next = "break" THEN {s.c}
                ELSE process_orphans_loop(s.c, IF s.next = "next" THEN h + 1 ELSE h,
                                          s.done, s.pvt, max_height) : s \in steps }

\* Fault variant of process_orphans: no orphan is promoted.
process_orphans_skip(c, start_height) == {c}
process_orphans(c, start_height) ==
    IF c.max_orphan_height = None THEN {c}
    ELSE process_orphans_loop(c, start_height, FALSE, {}, c.max_orphan_height)

\* -------------------------------------------------------------- append_block
Res(c, res) == [c |-> c, res |-> res]

\* Fault variant of append_to_tip: after the cascade a switch to every
\* valid tip is attempted as well.
append_to_tip_then_switch(c, b) ==
    IF block_height(b) # c.height + 1 THEN {Res(c, "BadHeight")}
    ELSE LET st == append_condition(b, c.canonical_tip_state)
         IN  IF IsErr(st) THEN {Res(c, "BadAppendCondition")}
             ELSE LET c1 == write_block(c, b)
                      c2 == Then(c1, LAMBDA x : perform_checkpoint(x, x.height, st))
                      c3 == Then(c2, LAMBDA x : [x EXCEPT !.canonical_tip_state = st])
                      c4 == ThenAll({c3}, LAMBDA y : process_orphans(y, block_height(b) + 1))
                      eligible(x) == {t \in x.valid_tips : /\ ~Has(x.disconnected_heads_mapping, t)
                                                           /\ ~Has(x.disconnected_tips_mapping, t)}
                  IN  {Res(x, "Ok") : x \in {y \in c4 : ~Ok(y) \/ eligible(y) = {}}}
                      \cup UNION {{Res(attempt_switch(x, t), "Ok") : t \in eligible(x)} : x \in {y \in c4 : Ok(y)}}
\* Parent is the canonical tip.
append_to_tip(c, b) ==
    IF block_height(b) # c.height + 1 THEN {Res(c, "BadHeight")}
    ELSE LET st == append_condition(b, c.canonical_tip_state)
         IN  IF IsErr(st) THEN {Res(c, "BadAppendCondition")}
             ELSE LET c1 == write_block(c, b)
                      c2 == Then(c1, LAMBDA x : perform_checkpoint(x, x.height, st))
                      c3 == Then(c2, LAMBDA x : [x EXCEPT !.canonical_tip_state = st])
                  IN  {Res(x, "Ok") : x \in ThenAll({c3}, LAMBDA y : process_orphans(y, block_height(b) + 1))}

\* The state of a canonical block that is not the tip:
\* [st, fatal, err] with err the ChainErr returned, "" when none.
parent_state(c, parent_height) ==
    LET r(f) == [st |-> f.st, fatal |-> f.fatal, err |-> ""]
    IN  IF c.earliest_checkpoint_height # None /\ c.last_checkpoint_height # None
        THEN IF parent_height < c.earliest_checkpoint_height
             THEN [st |-> Err, fatal |-> "", err |-> "NoCheckpointFound"]
             ELSE IF parent_height = c.last_checkpoint_height
             THEN IF ~Has(c.disk_heights_checkpoints, parent_height)
                  THEN [st |-> Err, fatal |-> "append_block: no checkpoint id", err |-> ""]
                  ELSE IF ~Has(c.disk, c.disk_heights_checkpoints[parent_height])
                  THEN [st |-> Err, fatal |-> "Could not find disk state!", err |-> ""]
                  ELSE [st |-> c.disk[c.disk_heights_checkpoints[parent_height]], fatal |-> "", err |-> ""]
             ELSE IF parent_height > c.last_checkpoint_height
             THEN r(fetch_next_state(c, c.last_checkpoint_height, parent_height))
             ELSE r(search_fetch_next_state(c, parent_height))
        ELSE r(search_fetch_next_state(c, parent_height))

\* Fault variant of append_fork: the block is written as an orphan before
\* the checks are made, and stays written when the call is refused.
append_fork_write_first(c, b) ==
    LET ph == block_height(parent_hash(b))
        ps == parent_state(c, ph)
        tip_state == append_condition(b, ps.st)
        c2 == write_orphan(c, b, "ValidChainTip", 0)
    IN  IF block_height(b) # ph + 1 THEN {Res(c2, "BadHeight")}
        ELSE IF ps.err # "" THEN {Res(c2, ps.err)}
        ELSE IF ps.fatal # "" THEN {Res(Panic(c, ps.fatal), "Ok")}
        ELSE IF IsErr(tip_state) THEN {Res(c2, "BadAppendCondition")}
        ELSE {Res(IF Ok(a.c) /\ a.status # "ValidChainTip" THEN attempt_switch(a.c, a.tip) ELSE a.c, "Ok") :
                  a \in attempt_attach_valid([c2 EXCEPT !.valid_tips_states = Put(@, b, tip_state)],
                                             b, tip_state, 0, "ValidChainTip")}
\* Parent is stored in the canonical chain and is not the tip.
append_fork(c, b) ==
    LET ph == block_height(parent_hash(b))
        ps == parent_state(c, ph)
        tip_state == append_condition(b, ps.st)
    IN  IF block_height(b) # ph + 1 THEN {Res(c, "BadHeight")}
        ELSE IF ps.err # "" THEN {Res(c, ps.err)}
        ELSE IF ps.fatal # "" THEN {Res(Panic(c, ps.fatal), "Ok")}
        ELSE IF IsErr(tip_state) THEN {Res(c, "BadAppendCondition")}
        ELSE LET c1 == [c EXCEPT !.valid_tips_states = Put(@, b, tip_state)]
                 c2 == write_orphan(c1, b, "ValidChainTip", 0)
             IN  {Res(IF Ok(a.c) /\ a.status # "ValidChainTip" THEN attempt_switch(a.c, a.tip) ELSE a.c, "Ok") :
                      a \in attempt_attach_valid(c2, b, tip_state, 0, "ValidChainTip")}

\* The tail shared by the two disconnected arms: the final status of the
\* pushed block after attempt_attach.
finish_disconnected(c, b, head, retip) ==
    {Res(IF ~Ok(a.c) THEN a.c
         ELSE IF a.status = "DisconnectedTip"
         THEN traverse_inverse(
                  IF retip THEN [a.c EXCEPT !.disconnected_tips_mapping = Put(@, b, head)] ELSE a.c,
                  b, 0, FALSE)
         ELSE IF ~Has(a.c.disconnected_heads_mapping, head)
         THEN Panic([a.c EXCEPT !.validations_mapping = Put(@, b, a.status)],
                    "append_block: head has no tips")
         ELSE [a.c EXCEPT !.validations_mapping = Put(@, b, a.status),
                          !.disconnected_heads_mapping[head] = @ \ {b},
                          !.disconnected_tips_mapping = Del(@, b)], "Ok") :
        a \in attempt_attach(c, b, "DisconnectedTip")}

\* Fault variant of append_disconnected_tip: the largest height of the
\* head is not updated.
append_disconnected_tip_keep_largest(c, b) ==
    LET p == parent_hash(b)
    IN  IF ~Has(c.disconnected_tips_mapping, p)
        THEN {Res(Panic(c, "append_block: parent tip has no head"), "Ok")}
        ELSE LET head == c.disconnected_tips_mapping[p]
             IN  IF ~Has(c.disconnected_heads_mapping, head)
                 THEN {Res(Panic(c, "append_block: head has no tips"), "Ok")}
                 ELSE IF ~Has(c.disconnected_heads_heights, head)
                 THEN {Res(Panic(c, "append_block: head has no largest height"), "Ok")}
                 ELSE
                 LET c1 == [c EXCEPT !.validations_mapping[p] = "BelongsToDisconnected",
                                     !.disconnected_heads_mapping[head] = (@ \ {p}) \cup {b},
                                     !.disconnected_tips_mapping = Del(@, p)]
                     c2 == write_orphan(c1, b, "DisconnectedTip", 0)
                     c3 == [c2 EXCEPT !.disconnected_tips_mapping = Put(@, b, head)]
                 IN  finish_disconnected(c3, b, head, FALSE)
\* Parent is an orphan with status DisconnectedTip.
append_disconnected_tip(c, b) ==
    LET p == parent_hash(b)
    IN  IF ~Has(c.disconnected_tips_mapping, p)
        THEN {Res(Panic(c, "append_block: parent tip has no head"), "Ok")}
        ELSE LET head == c.disconnected_tips_mapping[p]
             IN  IF ~Has(c.disconnected_heads_mapping, head)
                 THEN {Res(Panic(c, "append_block: head has no tips"), "Ok")}
                 ELSE IF ~Has(c.disconnected_heads_heights, head)
                 THEN {Res(Panic(c, "append_block: head has no largest height"), "Ok")}
                 ELSE
                 LET c1 == [c EXCEPT !.validations_mapping[p] = "BelongsToDisconnected",
                                     !.disconnected_heads_mapping[head] = (@ \ {p}) \cup {b},
                                     !.disconnected_tips_mapping = Del(@, p),
                                     !.disconnected_heads_heights[head] =
                                         IF block_height(b) > @[1] THEN <<block_height(b), b>> ELSE @]
                     c2 == write_orphan(c1, b, "DisconnectedTip", 0)
                     c3 == [c2 EXCEPT !.disconnected_tips_mapping = Put(@, b, head)]
                 IN  finish_disconnected(c3, b, head, FALSE)

\* Walks parents until a block registered as a head is found; None when
\* the walk leaves the orphan pool (unreachable!()) or never ends.
RECURSIVE find_head(_, _)
find_head(c, current) ==
    IF Has(c.disconnected_heads_mapping, current) THEN current
    ELSE IF current \notin c.orphan_pool \/ parent_hash(current) = current THEN None
    ELSE find_head(c, parent_hash(current))

\* Parent is an orphan with status BelongsToDisconnected.
append_belongs_to_disconnected(c, b) ==
    LET c1 == write_orphan(c, b, "DisconnectedTip", 0)
        head == find_head(c1, parent_hash(b))
    IN  IF head = None THEN {Res(Panic(c1, "append_block: no head above the parent"), "Ok")}
        ELSE LET c2 == [c1 EXCEPT !.disconnected_heads_mapping[head] = @ \cup {b},
                                  !.disconnected_tips_mapping = Put(@, b, head)]
             IN  finish_disconnected(c2, b, head, TRUE)

\* Parent is an orphan with status ValidChainTip.
append_valid_tip(c, b) ==
    LET p == parent_hash(b)
    IN  IF ~Has(c.valid_tips_states, p)
        THEN {Res(Panic(c, "append_block: valid tip has no state"), "Ok")}
        ELSE
        LET tip_state == append_condition(b, c.valid_tips_states[p])
        IN  IF IsErr(tip_state) THEN {Res(c, "BadAppendCondition")}
            ELSE
            LET c1 == [c EXCEPT !.valid_tips_states[p] = tip_state,
                                !.validations_mapping[p] = "BelongsToValidChain"]
                c2 == write_orphan(c1, b, "ValidChainTip", 0)
                after(a) ==
                    LET c3 == Then(a.c, LAMBDA x : traverse_inverse(x, b, a.inverse_height, a.inverse_height = 0))
                        c4 == Then(c3, LAMBDA x : [x EXCEPT !.valid_tips = @ \ {p}])
                        c5 == Then(c4, LAMBDA x :
                                  IF a.status = "ValidChainTip"
                                  THEN [x EXCEPT !.valid_tips = @ \cup {a.tip},
                                                 !.valid_tips_states = Put(@, a.tip, tip_state)]
                                  ELSE x)
                    IN  Then(c5, LAMBDA x : attempt_switch(x, a.tip))
            IN  {Res(after(a), "Ok") : a \in attempt_attach_valid(c2, b, tip_state, 0, "ValidChainTip")}

\* The walk of the BelongsToValidChain arm from the parent up to the
\* first stored ancestor: [stack |-> orphans visited, nearest first,
\* head |-> the stored ancestor, fatal].
RECURSIVE find_canonical_head(_, _, _)
find_canonical_head(c, current, visited_stack) ==
    IF current \notin c.orphan_pool
    THEN [stack |-> visited_stack, head |-> current, fatal |-> "append_block: ancestor is not an orphan"]
    ELSE IF parent_hash(current) \in c.db
    THEN [stack |-> Append(visited_stack, current), head |-> parent_hash(current), fatal |-> ""]
    ELSE IF parent_hash(current) = current
    THEN [stack |-> visited_stack, head |-> current, fatal |-> "append_block: the parent walk never ends"]
    ELSE find_canonical_head(c, parent_hash(current), Append(visited_stack, current))

\* Applies the visited stack, popping from its end.
RECURSIVE apply_stack(_, _)
apply_stack(stack, st) ==
    IF stack = <<>> \/ IsErr(st) THEN st
    ELSE apply_stack(SubSeq(stack, 1, Len(stack) - 1), append_condition(stack[Len(stack)], st))

\* Parent is an orphan with status BelongsToValidChain.
append_belongs_to_valid(c, b) ==
    LET w == find_canonical_head(c, parent_hash(b), <<>>)
    IN  IF w.fatal # "" THEN {Res(Panic(c, w.fatal), "Ok")}
        ELSE
        LET f == search_fetch_next_state(c, block_height(w.head) - 1)
        IN  IF f.fatal # "" THEN {Res(Panic(c, f.fatal), "Ok")}
            ELSE
            LET s1 == append_condition(w.head, f.st)
                s2 == apply_stack(w.stack, s1)
                tip_state == IF IsErr(s2) THEN Err ELSE append_condition(b, s2)
            IN  IF IsErr(tip_state) THEN {Res(c, "BadAppendCondition")}
                ELSE
                LET c1 == [c EXCEPT !.valid_tips = @ \cup {b},
                                    !.valid_tips_states = Put(@, b, tip_state)]
                    after(a) ==
                        LET c2 == Then(a.c, LAMBDA x : write_orphan(x, b, a.status, a.inverse_height))
                            c3 == Then(c2, LAMBDA x : traverse_inverse(x, a.tip, a.inverse_height,
                                                                        a.inverse_height = 0))
                        IN  Then(c3, LAMBDA x : attempt_switch(x, a.tip))
                IN  {Res(after(a), "Ok") : a \in attempt_attach_valid(c1, b, tip_state, 0, "ValidChainTip")}

\* Parent is neither stored nor an orphan.
append_unknown_parent(c, b) ==
    LET h == block_height(b)
        c1 == [c EXCEPT !.disconnected_heads_mapping = Put(@, b, {b}),
                        !.disconnected_tips_mapping = Put(@, b, b),
                        !.disconnected_heads_heights = Put(@, b, <<h, b>>),
                        !.heights_mapping = heights_insert(@, h, b, 0),
                        !.orphan_pool = @ \cup {b}]
        after(a) ==
            IF ~Ok(a.c) THEN {a.c}
            ELSE IF ~(a.c.valid_tips \subseteq a.c.orphan_pool)
                    /\ parent_hash(b) \notin a.c.valid_tips \cap a.c.orphan_pool
            THEN {Panic(a.c, "append_block: valid tip is not an orphan")}
            ELSE IF parent_hash(b) \in a.c.valid_tips \cap a.c.orphan_pool
            THEN LET tip == parent_hash(b)
                 IN  (IF a.c.valid_tips \subseteq a.c.orphan_pool THEN {}
                      ELSE {Panic(a.c, "append_block: valid tip is not an orphan")})
                     \cup
                     (IF ~Has(a.c.valid_tips_states, tip)
                      THEN {Panic(a.c, "append_block: valid tip has no state")}
                      ELSE {v.c : v \in attempt_attach_valid(write_orphan(a.c, b, a.status, 0), tip,
                                                             a.c.valid_tips_states[tip], 0, "ValidChainTip")})
            ELSE {write_orphan(a.c, b, a.status, 0)}
    IN  {Res(x, "Ok") : x \in UNION {after(a) : a \in attempt_attach(c1, b, "DisconnectedTip")}}

\* Fault variant of pool_full: the orphan pool is never full.
pool_never_full(c) == FALSE
\* The orphan pool holds MAX_ORPHANS blocks or more.
pool_full(c) == Cardinality(c.orphan_pool) >= MAX_ORPHANS

\* The arms of append_block, taken once the height window and the
\* existence check are passed.
append_checked(c, b) ==
    LET p == parent_hash(b)
    IN  IF p = None THEN {Res(c, "NoParentHash")}
        ELSE IF p = c.canonical_tip THEN append_to_tip(c, b)
        ELSE IF pool_full(c) THEN {Res(c, "TooManyOrphans")}
        ELSE IF p \in c.db THEN append_fork(c, b)
        ELSE IF p \in c.orphan_pool
        THEN IF block_height(b) # block_height(p) + 1 THEN {Res(c, "BadHeight")}
             ELSE IF ~Has(c.validations_mapping, p)
             THEN {Res(Panic(c, "append_block: parent has no validation status"), "Ok")}
             ELSE CASE c.validations_mapping[p] = "DisconnectedTip" -> append_disconnected_tip(c, b)
                    [] c.validations_mapping[p] = "ValidChainTip" -> append_valid_tip(c, b)
                    [] c.validations_mapping[p] = "BelongsToDisconnected" -> append_belongs_to_disconnected(c, b)
                    [] c.validations_mapping[p] = "BelongsToValidChain" -> append_belongs_to_valid(c, b)
        ELSE append_unknown_parent(c, b)

\* The lowest height append_block accepts.
min_height(c) == IF c.height > MIN_HEIGHT THEN c.height - MIN_HEIGHT ELSE 1

\* Fault variant of append_block: the existence check is made before the
\* height window.
append_block_existence_first(c, b) ==
    IF b \in c.orphan_pool \/ b \in c.db THEN {Res(c, "AlreadyInChain")}
    ELSE IF block_height(b) > c.height + MAX_HEIGHT \/ block_height(b) < min_height(c)
    THEN {Res(c, "BadHeight")}
    ELSE append_checked(c, b)
\* Fault variant of append_block: no existence check is made.
append_block_no_existence_check(c, b) ==
    IF block_height(b) > c.height + MAX_HEIGHT \/ block_height(b) < min_height(c)
    THEN {Res(c, "BadHeight")}
    ELSE append_checked(c, b)
\* Result: a set of [c |-> engine, res |-> "Ok" or the ChainErr], one
\* element per outcome of the hash iteration orders.
append_block(c, b) ==
    IF block_height(b) > c.height + MAX_HEIGHT \/ block_height(b) < min_height(c)
    THEN {Res(c, "BadHeight")}
    ELSE IF b \in c.orphan_pool \/ b \in c.db THEN {Res(c, "AlreadyInChain")}
    ELSE append_checked(c, b)

\* ---------------------------------------------------------- block universes
\* A universe maps each hash 1..n to [parent, height]; hash 0 is genesis.
Path(n) == [i \in 1..n |-> [parent |-> i - 1, height |-> i]]

RECURSIVE depth(_, _)
depth(par, i) == IF i = NULL THEN 0 ELSE 1 + depth(par, par[i])
\* Every tree of n blocks rooted at genesis, hashes in topological order.
Trees(n) ==
    {[i \in 1..n |-> [parent |-> par[i], height |-> depth(par, i)]] :
        par \in {f \in [1..n -> 0..(n - 1)] : \A i \in 1..n : f[i] < i}}

\* The DAG of append_stress_test: A..G are 1..7, B' C' D' E' are 8..11,
\* D''' is 12, C'' D'' E'' F'' are 13..16.
StressParents == <<0, 1, 2, 3, 4, 5, 6, 1, 8, 9, 10, 9, 8, 13, 14, 15>>
StressDag == [i \in 1..16 |-> [parent |-> StressParents[i], height |-> depth(StressParents, i)]]
\* The main path, the leaves of the side branches and their inner blocks.
StressMain == 1..7
StressLeaves == {11, 12, 16}
StressInner == {8, 9, 10, 13, 14, 15}

\* ----------------------------------------------------------------- actions
\* No rewind is being undone.
NoTrip == [tip |-> None, height |-> 0, todo |-> <<>>, stripped |-> {}]

\* The threads of a shared chain.
Writers == {"w1", "w2"}
Readers == {"r1"}
\* The chain is held by one owner: the lock is free and never taken.
Unshared == [writing |-> {}, reading |-> {},
             steps |-> [t \in Writers |-> <<>>],
             fin |-> [t \in Writers |-> <<>>],
             committed |-> [tip |-> NULL, height |-> 0, db |-> {}],
             seen |-> [r \in Readers |-> <<>>],
             block_cache |-> {}, stored_once |-> {},
             served |-> [r \in Readers |-> <<>>]]

InitWith(universes) ==
    /\ blocks \in universes
    /\ db = NewChain.db
    /\ db_heights = NewChain.db_heights
    /\ db_canonical_height = NewChain.db_canonical_height
    /\ height = NewChain.height
    /\ canonical_tip = NewChain.canonical_tip
    /\ canonical_tip_state = NewChain.canonical_tip_state
    /\ orphan_pool = NewChain.orphan_pool
    /\ max_orphan_height = NewChain.max_orphan_height
    /\ heights_mapping = NewChain.heights_mapping
    /\ disk_heights_checkpoints = NewChain.disk_heights_checkpoints
    /\ last_checkpoint_height = NewChain.last_checkpoint_height
    /\ earliest_checkpoint_height = NewChain.earliest_checkpoint_height
    /\ validations_mapping = NewChain.validations_mapping
    /\ disconnected_heads_mapping = NewChain.disconnected_heads_mapping
    /\ disconnected_heads_heights = NewChain.disconnected_heads_heights
    /\ disconnected_tips_mapping = NewChain.disconnected_tips_mapping
    /\ valid_tips = NewChain.valid_tips
    /\ valid_tips_states = NewChain.valid_tips_states
    /\ disk = NewChain.disk
    /\ fatal = NewChain.fatal
    /\ lastOp = [op |-> "new", arg |-> None, res |-> "Ok"]
    /\ calls = [pushed |-> {}, accepted |-> {}]
    /\ trip = NoTrip
    /\ shared = Unshared

\* The engine after a call.
Becomes(c) ==
    /\ db' = c.db
    /\ db_heights' = c.db_heights
    /\ db_canonical_height' = c.db_canonical_height
    /\ height' = c.height
    /\ canonical_tip' = c.canonical_tip
    /\ canonical_tip_state' = c.canonical_tip_state
    /\ orphan_pool' = c.orphan_pool
    /\ max_orphan_height' = c.max_orphan_height
    /\ heights_mapping' = c.heights_mapping
    /\ disk_heights_checkpoints' = c.disk_heights_checkpoints
    /\ last_checkpoint_height' = c.last_checkpoint_height
    /\ earliest_checkpoint_height' = c.earliest_checkpoint_height
    /\ validations_mapping' = c.validations_mapping
    /\ disconnected_heads_mapping' = c.disconnected_heads_mapping
    /\ disconnected_heads_heights' = c.disconnected_heads_heights
    /\ disconnected_tips_mapping' = c.disconnected_tips_mapping
    /\ valid_tips' = c.valid_tips
    /\ valid_tips_states' = c.valid_tips_states
    /\ disk' = c.disk
    /\ fatal' = c.fatal
    /\ UNCHANGED blocks

Result(r) == IF Ok(r.c) THEN r.res ELSE "panic"

\* chain.append_block(b), recorded in lastOp with the argument `arg`.
AppendCall(b, arg) ==
    /\ Ok(Self)
    /\ \E r \in append_block(Self, b) :
          /\ Becomes(r.c)
          /\ lastOp' = [op |-> "append_block", arg |-> arg, res |-> Result(r)]
          /\ calls' = [pushed |-> calls.pushed \cup {b},
                       accepted |-> IF Result(r) = "Ok" THEN calls.accepted \cup {b}
                                    ELSE calls.accepted]

\* chain.rewind(&h)
RewindCall(h) ==
    /\ Ok(Self)
    /\ LET r == rewind(Self, h)
       IN  /\ Becomes(r.c)
           /\ lastOp' = [op |-> "rewind", arg |-> h, res |-> Result(r)]
           /\ UNCHANGED calls

AppendBlock(b) == AppendCall(b, b) /\ UNCHANGED <<trip, shared>>

\* chain.append_block(b) for a block that was not passed before.
AppendNew(b) ==
    /\ b \notin calls.pushed
    /\ AppendBlock(b)

\* chain.append_block(b) for a block that was not passed before; the
\* call is recorded without its argument.
Arrive(b) ==
    /\ b \notin calls.pushed
    /\ AppendCall(b, None)
    /\ UNCHANGED <<trip, shared>>

Rewind(h) == RewindCall(h) /\ UNCHANGED <<trip, shared>>

\* The canonical blocks above height h, in ascending order.
RECURSIVE canonical_above(_, _)
canonical_above(h, top) ==
    IF h >= top THEN <<>> ELSE <<db_heights[h + 1]>> \o canonical_above(h + 1, top)

\* chain.rewind(&h) of a canonical block below the tip, remembered so that
\* the stripped blocks can be appended again.
RewindTrip(h) ==
    /\ h \in db \cup {NULL}
    /\ block_height(h) < height
    /\ \A i \in (block_height(h) + 1)..height : Has(db_heights, i)
    /\ RewindCall(h)
    /\ trip' = [tip |-> canonical_tip, height |-> height,
                todo |-> canonical_above(block_height(h), height),
                stripped |-> {db_heights[i] : i \in (block_height(h) + 1)..height}]
    /\ UNCHANGED shared

\* chain.append_block of the next stripped block, in ascending order.
Reappend ==
    /\ trip.todo # <<>>
    /\ AppendCall(Head(trip.todo), Head(trip.todo))
    /\ trip' = [trip EXCEPT !.todo = Tail(@)]
    /\ UNCHANGED shared

\* chain.append_block(b) while the chain is built, before any rewind.
Build(b) ==
    /\ trip = NoTrip
    /\ AppendCall(b, b)
    /\ UNCHANGED <<trip, shared>>

\* Blocks arrive once each, in any order.
NextArrival == \E b \in Hashes : AppendNew(b)

Next ==
    \/ \E b \in Hashes : AppendBlock(b)
    \/ \E h \in Hashes \cup {NULL} : Rewind(h)

\* Any tree of MaxTree blocks, appends and rewinds in any order.
Init == InitWith(Trees(MaxTree))
Spec == Init /\ [][Next]_vars

\* Any tree of MaxTree blocks: the chain is built, rewound once, and the
\* stripped blocks are appended again.
NextTrip ==
    \/ \E b \in Hashes : Build(b)
    \/ \E h \in Hashes \cup {NULL} : trip = NoTrip /\ RewindTrip(h)
    \/ Reappend
SpecTrip == Init /\ [][NextTrip]_vars

\* Any tree of MaxTree blocks, each block arriving once.
InitTree == InitWith(Trees(MaxTree))
SpecTree == InitTree /\ [][NextArrival]_vars

\* One path of MaxPath blocks, each block arriving once.
InitPath == InitWith({Path(MaxPath)})
SpecPath == InitPath /\ [][NextArrival]_vars

\* A block of the shuffled stress DAG arrives: any block during the first
\* MaxShuffled arrivals, the least block left after them.
ArriveShuffled(b) ==
    /\ \/ Cardinality(calls.pushed) < MaxShuffled
       \/ \A x \in Hashes \ calls.pushed : b <= x
    /\ Arrive(b)

\* The stress DAG, each block arriving once.
InitStress == InitWith({StressDag})
NextStress == \E b \in Hashes : ArriveShuffled(b)
SpecStress == InitStress /\ [][NextStress]_vars

\* A path of MaxLong blocks and a block that forks from its third block.
\* A block is passed once its parent was accepted, or while it is above
\* the height window; genesis is passed as a block too, and a rewind
\* happens while the orphan pool is empty.
LongDag == [i \in 1..(MaxLong + 1) |->
               IF i <= MaxLong THEN [parent |-> i - 1, height |-> i]
               ELSE [parent |-> 3, height |-> 4]]
InitLong == InitWith({LongDag})
AppendInOrder(b) ==
    /\ \/ parent_hash(b) \in calls.accepted \cup {NULL}
       \/ block_height(b) > height + MAX_HEIGHT
    /\ AppendBlock(b)
RewindClean(h) ==
    /\ orphan_pool = {}
    /\ Rewind(h)
NextLong ==
    \/ \E b \in Hashes \cup {NULL} : AppendInOrder(b)
    \/ \E h \in Hashes \cup {NULL} : RewindClean(h)
SpecLong == InitLong /\ [][NextLong]_vars

\* Blocks 1 and 2 are a path on genesis, block 3 is never passed and the
\* blocks 4..(MaxFill + 3) are its children.
FillDag == [i \in 1..(MaxFill + 3) |->
               IF i <= 2 THEN [parent |-> i - 1, height |-> i]
               ELSE IF i = 3 THEN [parent |-> NULL, height |-> 1]
               ELSE [parent |-> 3, height |-> 2]]
\* The next child of the missing block is passed.
Fill(b) ==
    /\ b > 3
    /\ b \notin calls.pushed
    /\ \A x \in Hashes : (x > 3 /\ x < b) => x \in calls.pushed
    /\ AppendBlock(b)
InitFill == InitWith({FillDag})
NextFill ==
    \/ \E b \in Hashes : Fill(b)
    \/ \E b \in {1, 2} : AppendBlock(b)
    \/ \E h \in {NULL, 1, 2} : Rewind(h)
SpecFill == InitFill /\ [][NextFill]_vars

\* A path of CHECKPOINT_INTERVAL blocks and MaxOdd blocks beside it: a fork
\* of block 3, a block that declares a height two above its stored
\* parent, and two children of the fork, one with a wrong height.
OddDag == [i \in 1..(CHECKPOINT_INTERVAL + MaxOdd) |->
              IF i <= CHECKPOINT_INTERVAL THEN [parent |-> i - 1, height |-> i]
              ELSE IF i = CHECKPOINT_INTERVAL + 1 THEN [parent |-> 3, height |-> 4]
              ELSE IF i = CHECKPOINT_INTERVAL + 2 THEN [parent |-> 2, height |-> 4]
              ELSE IF i = CHECKPOINT_INTERVAL + 3 THEN [parent |-> CHECKPOINT_INTERVAL + 1, height |-> 6]
              ELSE [parent |-> CHECKPOINT_INTERVAL + 1, height |-> 5]]
InitRefused == InitWith({OddDag, FillDag})
\* The calls that are refused: wrong heights, a parent below the first
\* checkpoint, a full orphan pool.
NextRefused ==
    \/ /\ blocks = OddDag
       /\ NextLong
    \/ /\ blocks = FillDag
       /\ NextFill
SpecRefused == InitRefused /\ [][NextRefused]_vars

\* A path of MaxGrow blocks, appended from the genesis block up; the tip
\* may be rewound by one block and appended again.
GrowDag == Path(MaxGrow)
InitGrow == InitWith({GrowDag})
Extend(b) ==
    /\ parent_hash(b) = canonical_tip
    /\ AppendBlock(b)
RewindOne(h) ==
    /\ orphan_pool = {}
    /\ h # canonical_tip
    /\ h = parent_hash(canonical_tip)
    /\ Rewind(h)
NextGrow ==
    \/ \E b \in Hashes : Extend(b)
    \/ \E h \in Hashes \cup {NULL} : RewindOne(h)
SpecGrow == InitGrow /\ [][NextGrow]_vars

\* A path of CHECKPOINT_INTERVAL blocks and a fork of two blocks that
\* leaves the path two blocks below its end and reaches the same height.
CheckDag == [i \in 1..(CHECKPOINT_INTERVAL + 2) |->
               IF i <= CHECKPOINT_INTERVAL THEN [parent |-> i - 1, height |-> i]
               ELSE IF i = CHECKPOINT_INTERVAL + 1
               THEN [parent |-> CHECKPOINT_INTERVAL - 2, height |-> CHECKPOINT_INTERVAL - 1]
               ELSE [parent |-> CHECKPOINT_INTERVAL + 1, height |-> CHECKPOINT_INTERVAL]]
InitCheck == InitWith({CheckDag})
\* chain.append_block(b): the first MaxBase blocks in order, then the
\* others in any order; no rewind is called.
ArriveAbove(b) ==
    /\ b \notin calls.pushed
    /\ \A x \in 1..MaxBase : x < b => x \in calls.pushed
    /\ AppendBlock(b)
NextCheck == \E b \in Hashes : ArriveAbove(b)
SpecCheck == InitCheck /\ [][NextCheck]_vars

\* Every tree of MaxSkew blocks rooted at genesis in which each block
\* declares any height from 1 to MaxDeclared, whatever its depth; each
\* block arrives once, in any order.
Skewed(n) ==
    {[i \in 1..n |-> [parent |-> par[i], height |-> hs[i]]] :
        par \in {f \in [1..n -> 0..(n - 1)] : \A i \in 1..n : f[i] < i},
        hs \in [1..n -> 1..MaxDeclared]}
InitSkew == InitWith(Skewed(MaxSkew))
SpecSkew == InitSkew /\ [][NextArrival]_vars

\* ---------------------------------------------------------- the shared chain
\* The fields of the engine.
engine == <<db, db_heights, db_canonical_height, height, canonical_tip,
            canonical_tip_state, orphan_pool, max_orphan_height,
            heights_mapping, disk_heights_checkpoints, last_checkpoint_height,
            earliest_checkpoint_height, validations_mapping,
            disconnected_heads_mapping, disconnected_heads_heights,
            disconnected_tips_mapping, valid_tips, valid_tips_states, disk,
            fatal>>

\* A block and its ancestors down to genesis.
RECURSIVE ancestors(_)
ancestors(b) == IF b = NULL THEN {NULL} ELSE {b} \cup ancestors(parent_hash(b))

\* Two branches above block 1: 1 - 2 and 1 - 3 - 4 - 5.
SharedParents == <<0, 1, 1, 3, 4>>
SharedDag == [i \in 1..5 |-> [parent |-> SharedParents[i], height |-> depth(SharedParents, i)]]
\* The hashes a reader looks up.
Queried == {2, 5}

\* What the read half of the API shows of an engine: canonical_tip(),
\* height() and, through query, the blocks of the store.
Shown(c) == [tip |-> c.canonical_tip, height |-> c.height, db |-> c.db]

\* The engine `f` a call leaves, with the canonical chain cut back to the
\* block x: the store as write_block had left it when x was the tip.
cut_to(f, x) ==
    [f EXCEPT !.db = {y \in f.db : y \in ancestors(x)},
              !.db_heights = [k \in {j \in DOMAIN f.db_heights : j <= block_height(x)} |-> f.db_heights[k]],
              !.height = block_height(x),
              !.db_canonical_height = block_height(x),
              !.canonical_tip = x]

\* The blocks from `from` (excluded) up to `to`, in ascending order.
RECURSIVE climb(_, _)
climb(from, to) ==
    IF to = from \/ to = NULL THEN <<>> ELSE Append(climb(from, parent_hash(to)), to)

\* The engine states a call passes through inside the write lock, the
\* last one being the state it leaves: a rewind first strips the tip, a
\* switch first rewinds to the horizon, and blocks are written to the
\* store one at a time by a switch and by the process_orphans cascade.
call_steps(c, op, f) ==
    IF ~Ok(f) \/ f.canonical_tip = c.canonical_tip THEN <<f>>
    ELSE IF op = "rewind" THEN <<rewind_tip(c), f>>
    ELSE LET common == CHOOSE x \in ancestors(c.canonical_tip) \cap ancestors(f.canonical_tip) :
                           \A y \in ancestors(c.canonical_tip) \cap ancestors(f.canonical_tip) :
                               block_height(y) <= block_height(x)
             path == climb(common, f.canonical_tip)
         IN  (IF common # c.canonical_tip THEN <<cut_to(f, common)>> ELSE <<>>)
             \o [i \in 1..(Len(path) - 1) |-> cut_to(f, path[i])]
             \o <<f>>

\* Fault variant of write_free: the write lock is granted whoever holds
\* the lock.
write_always(sh) == TRUE
\* RwLock::write is granted when no thread holds the lock.
write_free(sh) == sh.writing = {} /\ sh.reading = {}
\* Fault variant of read_free: the read lock is granted while a writer
\* holds the lock.
read_always(sh) == TRUE
\* RwLock::read is granted when no writer holds the lock.
read_free(sh) == sh.writing = {}

\* A thread takes the write lock and starts a call.
WriteLock(t, op, arg) ==
    /\ Ok(Self)
    /\ t \notin shared.writing
    /\ write_free(shared)
    /\ IF op = "append_block" THEN arg \in Hashes \ calls.pushed
       ELSE arg \in db \cup {NULL} /\ orphan_pool = {}
    /\ \E r \in IF op = "append_block" THEN append_block(Self, arg) ELSE {rewind(Self, arg)} :
          shared' = [shared EXCEPT !.writing = @ \cup {t},
                                   !.steps[t] = call_steps(Self, op, r.c),
                                   !.fin[t] = <<[op |-> op, arg |-> arg, res |-> Result(r)]>>]
    /\ calls' = [calls EXCEPT !.pushed = IF op = "append_block" THEN @ \cup {arg} ELSE @]
    /\ UNCHANGED <<engine, blocks, lastOp, trip>>

\* The call of the thread reaches its next state inside the lock.
WriteStep(t) ==
    /\ t \in shared.writing
    /\ Len(shared.steps[t]) > 1
    /\ Becomes(Head(shared.steps[t]))
    /\ shared' = [shared EXCEPT !.steps[t] = Tail(@)]
    /\ UNCHANGED <<lastOp, calls, trip>>

\* The call returns and the write lock is dropped.
WriteUnlock(t) ==
    /\ t \in shared.writing
    /\ Len(shared.steps[t]) = 1
    /\ Becomes(Head(shared.steps[t]))
    /\ lastOp' = shared.fin[t][1]
    /\ calls' = [calls EXCEPT !.accepted =
                    IF shared.fin[t][1].op = "append_block" /\ shared.fin[t][1].res = "Ok"
                    THEN @ \cup {shared.fin[t][1].arg} ELSE @]
    /\ shared' = [shared EXCEPT !.writing = @ \ {t},
                                !.steps[t] = <<>>,
                                !.fin[t] = <<>>,
                                !.committed = Shown(Head(shared.steps[t])),
                                !.stored_once = @ \cup Head(shared.steps[t]).db]
    /\ UNCHANGED trip

\* ChainRef::query of a hash that is not cached takes the read lock.
ReadLock(r) ==
    /\ r \notin shared.reading
    /\ read_free(shared)
    /\ shared' = [shared EXCEPT !.reading = @ \cup {r}]
    /\ UNCHANGED <<engine, blocks, lastOp, calls, trip>>

\* Inside the read lock: canonical_tip(), height() and query(h); a block
\* that is found is put in the block cache.
Read(r, h) ==
    /\ r \in shared.reading
    /\ shared.seen[r] = <<>>
    /\ h \notin shared.block_cache
    /\ shared' = [shared EXCEPT !.seen[r] = <<[tip |-> canonical_tip, height |-> height,
                                               hash |-> h, found |-> h \in db]>>,
                                !.block_cache = IF h \in db THEN @ \cup {h} ELSE @]
    /\ UNCHANGED <<engine, blocks, lastOp, calls, trip>>

\* The read lock is dropped.
ReadUnlock(r) ==
    /\ r \in shared.reading
    /\ shared' = [shared EXCEPT !.reading = @ \ {r}, !.seen[r] = <<>>]
    /\ UNCHANGED <<engine, blocks, lastOp, calls, trip>>

\* ChainRef::query of a cached hash: the block cache serves the block and
\* the chain lock is not taken.
CacheHit(r, h) ==
    /\ r \notin shared.reading
    /\ h \in shared.block_cache
    /\ shared' = [shared EXCEPT !.served[r] = <<[hash |-> h, stored |-> h \in db]>>]
    /\ UNCHANGED <<engine, blocks, lastOp, calls, trip>>

InitShared ==
    /\ InitWith({SharedDag})
NextShared ==
    \/ \E t \in Writers, b \in Hashes : WriteLock(t, "append_block", b)
    \/ \E t \in Writers, h \in Hashes \cup {NULL} : WriteLock(t, "rewind", h)
    \/ \E t \in Writers : WriteStep(t)
    \/ \E t \in Writers : WriteUnlock(t)
    \/ \E r \in Readers : ReadLock(r)
    \/ \E r \in Readers, h \in Queried : Read(r, h)
    \/ \E r \in Readers : ReadUnlock(r)
    \/ \E r \in Readers, h \in Queried : CacheHit(r, h)
SpecShared == InitShared /\ [][NextShared]_vars

\* -------------------------------------------------------------- properties
\* The blocks of the universe no other block is deeper than.
Deepest == {b \in Hashes : \A x \in Hashes : block_height(x) <= block_height(b)}
\* Every block of the universe was passed once and every call returned Ok.
AllAccepted == calls.pushed = Hashes /\ calls.accepted = Hashes /\ fatal = ""

\* p is a block of the canonical chain: genesis, or stored and below the tip.
OnCanonical(p) == p \in ancestors(canonical_tip) /\ (p = NULL \/ p \in db)
\* The canonical blocks above p.
Above(p) == {b \in ancestors(canonical_tip) : block_height(b) > block_height(p)}

\* C1: whatever the order in which the blocks of a tree with a unique
\* deepest tip T arrive, once every block was accepted the canonical tip
\* is T and height() is the height of T.
ArrivalIndependence ==
    (AllAccepted /\ Cardinality(Deepest) = 1) =>
        \A t \in Deepest : canonical_tip = t /\ height = block_height(t)

\* C2: every block of the stress DAG is accepted, in any order, and once
\* the 16 blocks have arrived valid_tips is the set of the three side
\* leaves, each of them has a state and the status ValidChainTip, the other
\* side-branch blocks have the status BelongsToValidChain and the blocks
\* A..G have no status.
StressOutcome ==
    /\ fatal = ""
    /\ calls.accepted = calls.pushed
    /\ calls.pushed = Hashes =>
          /\ valid_tips = StressLeaves
          /\ \A t \in StressLeaves :
                /\ Has(valid_tips_states, t)
                /\ Has(validations_mapping, t)
                /\ validations_mapping[t] = "ValidChainTip"
          /\ \A b \in StressInner :
                /\ Has(validations_mapping, b)
                /\ validations_mapping[b] = "BelongsToValidChain"
          /\ \A b \in StressMain : ~Has(validations_mapping, b)

RECURSIVE walks_to_genesis(_, _)
walks_to_genesis(b, n) ==
    IF b = NULL THEN n = 0
    ELSE n > 0 /\ b \in db /\ walks_to_genesis(parent_hash(b), n - 1)

\* C4: the parent walk from the canonical tip reaches genesis in height()
\* steps through blocks that query returns, the tip's height is height(),
\* and the height index maps exactly the heights 1..height(), each to the
\* canonical block of that height.
CanonicalContinuity ==
    fatal = "" =>
        /\ walks_to_genesis(canonical_tip, height)
        /\ block_height(canonical_tip) = height
        /\ DOMAIN db_heights = 1..height
        /\ \A i \in DOMAIN db_heights :
              /\ db_heights[i] \in ancestors(canonical_tip)
              /\ block_height(db_heights[i]) = i

\* C5: no hash is in the block store and in the orphan pool, every block
\* whose append returned Ok is in one of them, and genesis is not an orphan.
Disjointness ==
    fatal = "" =>
        /\ db \cap orphan_pool = {}
        /\ calls.accepted \subseteq db \cup orphan_pool
        /\ NULL \notin orphan_pool

\* C6: every valid tip is an orphan with the status ValidChainTip and a
\* state, and every orphan with the status ValidChainTip is a valid tip.
StatusConsistency ==
    fatal = "" =>
        /\ \A t \in valid_tips :
              /\ t \in orphan_pool
              /\ Has(validations_mapping, t)
              /\ validations_mapping[t] = "ValidChainTip"
              /\ Has(valid_tips_states, t)
        /\ \A o \in orphan_pool :
              (Has(validations_mapping, o) /\ validations_mapping[o] = "ValidChainTip")
                  => o \in valid_tips

\* The length of the longest chain of orphans descending from x.
RECURSIVE longest_descent(_)
longest_descent(x) ==
    LET children == {k \in orphan_pool : k # x /\ parent_hash(k) = x}
    IN  IF children = {} THEN 0
        ELSE 1 + Max({longest_descent(k) : k \in children})

\* C7: the inverse height recorded for every orphan is the length of the
\* longest chain of orphans descending from it.
InverseHeightLaw ==
    fatal = "" =>
        \A x \in orphan_pool :
            /\ Has(heights_mapping, block_height(x))
            /\ Has(heights_mapping[block_height(x)], x)
            /\ heights_mapping[block_height(x)][x] = longest_descent(x)

\* C8: rewind to any block of the canonical chain, the tip included,
\* returns Ok and leaves that block as the canonical tip, its height as
\* height(), and as canonical state the state of the canonical blocks up
\* to it applied to the genesis state.
RewindToCanonical ==
    [][(lastOp'.op = "rewind" /\ OnCanonical(lastOp'.arg)) =>
          /\ lastOp'.res = "Ok"
          /\ canonical_tip' = lastOp'.arg
          /\ height' = block_height(lastOp'.arg)
          /\ \A i \in 1..block_height(lastOp'.arg) : Has(db_heights, i)
          /\ canonical_tip_state' = [i \in 1..block_height(lastOp'.arg) |-> db_heights[i]]]_vars

\* C9: once the blocks stripped by a rewind have been passed to
\* append_block again in ascending order, the canonical tip and height()
\* are those from before the rewind and none of the blocks is an orphan.
RewindRoundTrip ==
    (trip.tip # None /\ trip.todo = <<>> /\ fatal = "") =>
        /\ canonical_tip = trip.tip
        /\ height = trip.height
        /\ trip.stripped \cap orphan_pool = {}

StressArrived ==
    /\ Cardinality(Hashes) = 16
    /\ calls.pushed = Hashes
    /\ canonical_tip = 7
    /\ valid_tips = StressLeaves

ContinuityAfterRewind ==
    /\ fatal = ""
    /\ lastOp.op = "rewind"
    /\ lastOp.res = "Ok"
    /\ height >= 1
    /\ canonical_tip \in db
    /\ orphan_pool # {}

\* C6 witness: two valid tips stand next to an orphan that belongs to a
\* valid chain.
TipsAndInner ==
    /\ fatal = ""
    /\ Cardinality(valid_tips) >= 2
    /\ \E o \in orphan_pool :
          Has(validations_mapping, o) /\ validations_mapping[o] = "BelongsToValidChain"

RewindUnknownTarget ==
    [][(lastOp'.op = "rewind" /\ lastOp'.arg # NULL /\ lastOp'.arg \notin db) =>
          /\ lastOp'.res = "NoSuchBlock"
          /\ UNCHANGED engine]_vars

\* C11 witness: a rewind to the hash of an orphan was refused.
RewindRefused ==
    /\ lastOp.op = "rewind"
    /\ lastOp.res = "NoSuchBlock"
    /\ lastOp.arg \notin db
    /\ lastOp.arg \in orphan_pool

\* The block b is outside the height window of the engine.
OutOfWindow(b) ==
    \/ block_height(b) > height + MAX_HEIGHT
    \/ block_height(b) < (IF height > MIN_HEIGHT THEN height - MIN_HEIGHT ELSE 1)

\* C12: append_block of a block whose height is outside the window
\* returns BadHeight and changes no field of the engine, also when the
\* block is already stored.
HeightWindowFirst ==
    [][(lastOp'.op = "append_block" /\ OutOfWindow(lastOp'.arg)) =>
          /\ lastOp'.res = "BadHeight"
          /\ UNCHANGED engine]_vars

\* C12 witness: a canonical block that fell below the window was passed
\* again and refused with BadHeight.
StoredBelowWindow ==
    /\ lastOp.op = "append_block"
    /\ lastOp.res = "BadHeight"
    /\ lastOp.arg \in db
    /\ height > MIN_HEIGHT
    /\ block_height(lastOp.arg) < height - MIN_HEIGHT

\* C13: append_block of a block inside the height window whose hash is
\* in the canonical store or in the orphan pool returns AlreadyInChain
\* and changes no field of the engine.
KnownBlockRefused ==
    [][(/\ lastOp'.op = "append_block"
        /\ ~OutOfWindow(lastOp'.arg)
        /\ (lastOp'.arg \in db \/ lastOp'.arg \in orphan_pool)) =>
          /\ lastOp'.res = "AlreadyInChain"
          /\ UNCHANGED engine]_vars

\* C13 witness: an orphan was passed again and refused.
OrphanPassedAgain ==
    /\ lastOp.op = "append_block"
    /\ lastOp.res = "AlreadyInChain"
    /\ lastOp.arg \in orphan_pool
    /\ db # {}

\* C14: while the orphan pool holds MAX_ORPHANS blocks or more,
\* append_block of a new block inside the window whose parent is not the
\* canonical tip returns TooManyOrphans and changes no field of the
\* engine, and a new block that extends the canonical tip is accepted
\* into the canonical store.
FullPoolRefuses ==
    [][(/\ lastOp'.op = "append_block"
        /\ ~OutOfWindow(lastOp'.arg)
        /\ lastOp'.arg \notin db \cup orphan_pool
        /\ Cardinality(orphan_pool) >= MAX_ORPHANS) =>
          IF parent_hash(lastOp'.arg) # canonical_tip
          THEN lastOp'.res = "TooManyOrphans" /\ UNCHANGED engine
          ELSE block_height(lastOp'.arg) = height + 1 =>
                  /\ lastOp'.res = "Ok"
                  /\ lastOp'.arg \in db']_vars

\* C14 witness: with a full pool a new orphan was refused, and then a
\* block that extends the canonical tip was accepted.
FullPoolExtended ==
    /\ lastOp.op = "append_block"
    /\ lastOp.res = "Ok"
    /\ lastOp.arg = canonical_tip
    /\ Cardinality(orphan_pool) >= MAX_ORPHANS
    /\ \E b \in calls.pushed \ calls.accepted : b \notin db \cup orphan_pool

\* C15: the orphan pool never holds more than MAX_ORPHANS blocks.
PoolBounded ==
    fatal = "" => Cardinality(orphan_pool) <= MAX_ORPHANS

\* The errors append_block and rewind return.
ChainErr == {"BadHeight", "AlreadyInChain", "NoParentHash", "TooManyOrphans",
             "BadAppendCondition", "NoCheckpointFound", "NoSuchBlock"}

LowCandidates ==
    {t \in valid_tips : /\ ~Has(disconnected_heads_mapping, t)
                        /\ ~Has(disconnected_tips_mapping, t)
                        /\ block_height(t) <= height + SWITCH_OFFSET}

\* C17: an append_block that leaves a canonical tip which does not descend
\* from the previous canonical tip leaves a tip strictly higher than the
\* canonical height before the call plus SWITCH_OFFSET; and attempt_switch
\* called with a valid tip whose height is at most the canonical height
\* plus SWITCH_OFFSET leaves the canonical tip, the height, the canonical
\* store and the orphan pool unchanged.
SwitchRule ==
    /\ [][(/\ lastOp'.op = "append_block"
            /\ fatal' = ""
            /\ canonical_tip \notin ancestors(canonical_tip')) =>
              block_height(canonical_tip') > height + SWITCH_OFFSET]_vars
    /\ [](fatal = "" =>
            \A t \in LowCandidates :
                LET x == attempt_switch(Self, t)
                IN  /\ x.canonical_tip = canonical_tip
                    /\ x.height = height
                    /\ x.db = db
                    /\ x.db_heights = db_heights
                    /\ x.orphan_pool = orphan_pool
                    /\ x.fatal = "")

\* A block was accepted as a valid tip exactly as high as the canonical
\* chain, below another tip, and the canonical tip was kept.
EqualHeightTipKept ==
    /\ lastOp.op = "append_block"
    /\ lastOp.res = "Ok"
    /\ lastOp.arg \in LowCandidates
    /\ block_height(lastOp.arg) = height + SWITCH_OFFSET
    /\ canonical_tip # lastOp.arg
    /\ canonical_tip \in db
    /\ fatal = ""

\* C18: an append_block that changes the canonical tip changes the chain
\* along one path only.  Either the block extends the canonical tip: the
\* new tip descends from the block, the block from the old tip, and no
\* stored block leaves the store (no switch took place).  Or the block
\* does not extend the canonical tip: one switch took place, the new tip
\* is the candidate reached from the block, it is higher than the height
\* before the call plus SWITCH_OFFSET, and every block that left the
\* store is an orphan.  In both cases height() is the height of the tip
\* the call leaves.
OneChangePerAppend ==
    [][(/\ lastOp'.op = "append_block"
        /\ fatal' = ""
        /\ canonical_tip' # canonical_tip) =>
          /\ lastOp'.res = "Ok"
          /\ lastOp'.arg \in ancestors(canonical_tip')
          /\ height' = block_height(canonical_tip')
          /\ canonical_tip' \in db'
          /\ IF parent_hash(lastOp'.arg) = canonical_tip
             THEN /\ canonical_tip \in ancestors(canonical_tip')
                  /\ db \subseteq db'
             ELSE /\ height' > height + SWITCH_OFFSET
                  /\ (db \ db') \subseteq orphan_pool'
                  /\ canonical_tip \notin db' \/ canonical_tip \in ancestors(canonical_tip')]_vars

\* A block that does not extend the canonical tip was accepted, the chain
\* switched to it and the old canonical tip became an orphan.
SwitchedOnce ==
    /\ lastOp.op = "append_block"
    /\ lastOp.res = "Ok"
    /\ lastOp.arg \in ancestors(canonical_tip)
    /\ \E old \in orphan_pool :
          /\ old \notin ancestors(canonical_tip)
          /\ Has(validations_mapping, old)
          /\ validations_mapping[old] = "ValidChainTip"
          /\ block_height(old) < height
          /\ parent_hash(lastOp.arg) # old
    /\ fatal = ""

\* C19: for every canonical height h the state fetch_next_state(0, h)
\* returns is the state search_fetch_next_state(h) returns.
CheckpointCorrectness ==
    fatal = "" =>
        \A h \in 0..height :
            fetch_next_state(Self, 0, h) = search_fetch_next_state(Self, h)

\* The state obtained by applying the canonical blocks 1..h to the
\* genesis state.
RECURSIVE canonical_state(_)
canonical_state(h) ==
    IF h = 0 THEN genesis_state
    ELSE IF ~Has(db_heights, h) THEN Err
    ELSE LET st == canonical_state(h - 1)
         IN  IF IsErr(st) THEN Err ELSE append_condition(db_heights[h], st)

\* C20: for every height h from 1 to the canonical height,
\* search_fetch_next_state(h) hits no fatal condition and returns the
\* state obtained by applying the canonical blocks 1..h to the genesis
\* state.
CheckpointCompleteness ==
    fatal = "" =>
        \A h \in 1..height :
            LET r == search_fetch_next_state(Self, h)
            IN  /\ r.fatal = ""
                /\ r.st = canonical_state(h)

\* C21: the number of retained checkpoints never exceeds MAX_CHECKPOINTS.
CheckpointsBounded ==
    fatal = "" => Cardinality(DOMAIN disk_heights_checkpoints) <= MAX_CHECKPOINTS

\* C22: after a rewind no stale checkpoint survives: no checkpoint is
\* stored at a height above the canonical height, and the two markers,
\* when present, are at most the canonical height and are heights with a
\* stored checkpoint.
NoStaleCheckpoint ==
    (fatal = "" /\ lastOp.op = "rewind" /\ lastOp.res = "Ok") =>
        /\ \A k \in DOMAIN disk_heights_checkpoints : k <= height
        /\ last_checkpoint_height # None =>
              /\ last_checkpoint_height <= height
              /\ Has(disk_heights_checkpoints, last_checkpoint_height)
        /\ earliest_checkpoint_height # None =>
              /\ earliest_checkpoint_height <= height
              /\ Has(disk_heights_checkpoints, earliest_checkpoint_height)

\* C23: after a rewind the two markers are absent iff no checkpoint is
\* stored, and a rewind that passes no checkpoint height leaves the
\* markers and the checkpoint map unchanged.
MarkersFollowCheckpoints ==
    [][(lastOp'.op = "rewind" /\ lastOp'.res = "Ok" /\ fatal' = "") =>
          /\ (last_checkpoint_height' = None) <=> (DOMAIN disk_heights_checkpoints' = {})
          /\ (earliest_checkpoint_height' = None) <=> (DOMAIN disk_heights_checkpoints' = {})
          /\ (\A k \in DOMAIN disk_heights_checkpoints : k <= block_height(lastOp'.arg)) =>
                UNCHANGED <<last_checkpoint_height, earliest_checkpoint_height,
                            disk_heights_checkpoints>>]_vars

\* C24: on a shared chain the calls that change the engine never overlap,
\* no reader is inside the lock with a writer, what a reader sees inside
\* the lock (canonical tip, height, whether a block is stored) is the
\* state left by the last call that returned, never a state inside a
\* switch, a cascade or a rewind, and a block served by the block cache
\* was stored when some call returned.
Linearizable ==
    /\ Cardinality(shared.writing) <= 1
    /\ shared.writing # {} => shared.reading = {}
    /\ \A r \in Readers :
          shared.seen[r] # <<>> =>
              LET o == shared.seen[r][1]
              IN  /\ o.tip = shared.committed.tip
                  /\ o.height = shared.committed.height
                  /\ o.found = (o.hash \in shared.committed.db)
    /\ shared.block_cache \subseteq shared.stored_once

\* A writer is inside a chain switch: the canonical chain is cut back to
\* the horizon, the branch of the candidate is not written yet, and a
\* reader waits for the lock.
InsideSwitch ==
    /\ \E t \in shared.writing :
          /\ shared.fin[t][1].op = "append_block"
          /\ Len(shared.steps[t]) >= 2
          /\ shared.committed.tip # canonical_tip
          /\ canonical_tip \in ancestors(shared.committed.tip)
    /\ shared.reading = {}
    /\ shared.block_cache # {}
    /\ fatal = ""

\* C25: Chain::new over the store of an engine yields the canonical tip,
\* the height and the checkpoint markers of that engine; over an empty
\* store it yields the genesis block and height 0.
RestartRestores ==
    fatal = "" =>
        LET n == chain_new(Self, canonical_tip_state)
        IN  /\ n.canonical_tip = canonical_tip
            /\ n.height = height
            /\ n.earliest_checkpoint_height = earliest_checkpoint_height
            /\ n.last_checkpoint_height = last_checkpoint_height

\* The state obtained by applying the blocks of the path from the
\* genesis block to t to the genesis state.
RECURSIVE path_state(_)
path_state(t) ==
    IF t = NULL THEN genesis_state
    ELSE LET st == path_state(parent_hash(t))
         IN  IF IsErr(st) THEN Err ELSE append_condition(t, st)

RECURSIVE pool_root(_)
pool_root(o) ==
    IF o = NULL \/ parent_hash(o) \notin orphan_pool THEN o ELSE pool_root(parent_hash(o))

\* C27: an orphan is a ValidChainTip or BelongsToValidChain iff the parent
\* of the root of its fragment is on the canonical chain, genesis
\* included, and it is a DisconnectedTip or BelongsToDisconnected iff
\* that parent is unknown to the engine.
OrphanRootedness ==
    fatal = "" =>
        \A o \in orphan_pool :
            /\ Has(validations_mapping, o)
            /\ LET p == parent_hash(pool_root(o))
                   rooted == p = NULL \/ p \in db
               IN  /\ validations_mapping[o] \in {"ValidChainTip", "BelongsToValidChain"} <=> rooted
                   /\ validations_mapping[o] \in {"DisconnectedTip", "BelongsToDisconnected"} <=> ~rooted

\* C28: max_orphan_height is absent iff the orphan pool is empty, and
\* otherwise is the greatest height of a block of the orphan pool.
MaxOrphanHeight ==
    fatal = "" =>
        IF orphan_pool = {} THEN max_orphan_height = None
        ELSE max_orphan_height = Max({block_height(o) : o \in orphan_pool})

\* C29: for every fragment head h, disconnected_heads_heights[h] names a
\* tip of disconnected_heads_mapping[h] together with its height, which
\* is the greatest height of the tips of h; and the assertion of
\* attempt_attach_valid on that tip never fails.
LargestTip ==
    /\ fatal # "attempt_attach_valid: largest tip is not a tip of its head"
    /\ fatal = "" =>
          \A h \in DOMAIN disconnected_heads_mapping :
              /\ Has(disconnected_heads_heights, h)
              /\ disconnected_heads_heights[h][2] \in disconnected_heads_mapping[h]
              /\ disconnected_heads_heights[h][1] = block_height(disconnected_heads_heights[h][2])
              /\ \A t \in disconnected_heads_mapping[h] :
                    block_height(t) <= disconnected_heads_heights[h][1]

\* A fragment head has two tips below it, and its largest tip is one of
\* them.
HeadWithTwoTips ==
    /\ \E h \in DOMAIN disconnected_heads_mapping :
          /\ Cardinality(disconnected_heads_mapping[h]) >= 2
          /\ h \notin disconnected_heads_mapping[h]
          /\ Has(disconnected_heads_heights, h)
          /\ disconnected_heads_heights[h][2] \in disconnected_heads_mapping[h]
          /\ disconnected_heads_heights[h][1] > block_height(h)
    /\ fatal = ""

\* C30: when only append_block is called, every positive multiple of
\* CHECKPOINT_INTERVAL up to the canonical height has a checkpoint id in
\* disk_heights_checkpoints, and last_checkpoint_height is the greatest
\* of these multiples.
CheckpointEveryInterval ==
    fatal = "" =>
        \A m \in 1..height :
            m % CHECKPOINT_INTERVAL = 0 =>
                /\ Has(disk_heights_checkpoints, m)
                /\ last_checkpoint_height # None
                /\ last_checkpoint_height >= m
                /\ last_checkpoint_height <= height

\* The block b, not known to the engine, has height parent.height + 1 and
\* its parent is a block of the canonical chain (genesis included) that
\* is not the tip; the orphan pool is not full.
ForksCanonical(b) ==
    /\ b \notin db \cup orphan_pool
    /\ ~OutOfWindow(b)
    /\ OnCanonical(parent_hash(b))
    /\ parent_hash(b) # canonical_tip
    /\ block_height(b) = block_height(parent_hash(b)) + 1
    /\ Cardinality(orphan_pool) < MAX_ORPHANS

\* C31: a block that forks the canonical chain below the tip is refused
\* with NoCheckpointFound when its parent is below the earliest
\* checkpoint and is accepted otherwise; accepted with no fragment to
\* attach, it is an orphan with status ValidChainTip and inverse height 0,
\* a member of valid_tips with the state of its path, and the canonical
\* tip and height are unchanged.
ForkOnCanonical ==
    [][(lastOp'.op = "append_block" /\ ForksCanonical(lastOp'.arg)) =>
          LET b == lastOp'.arg
          IN  IF earliest_checkpoint_height # None
                 /\ block_height(parent_hash(b)) < earliest_checkpoint_height
              THEN lastOp'.res = "NoCheckpointFound"
              ELSE /\ lastOp'.res = "Ok"
                   /\ fatal' = ""
                   /\ (\A o \in orphan_pool : parent_hash(o) # b) =>
                         /\ b \in orphan_pool'
                         /\ Has(validations_mapping', b)
                         /\ validations_mapping'[b] = "ValidChainTip"
                         /\ heights_mapping'[block_height(b)][b] = 0
                         /\ b \in valid_tips'
                         /\ Has(valid_tips_states', b)
                         /\ valid_tips_states'[b] = path_state(b)
                         /\ UNCHANGED <<canonical_tip, height, db>>]_vars

\* C32: the blocks that have an entry in valid_tips_states are exactly
\* the members of valid_tips, each of them an orphan with status
\* ValidChainTip; a block demoted to BelongsToValidChain has left both.
TipStateKeys ==
    fatal = "" =>
        /\ DOMAIN valid_tips_states = valid_tips
        /\ \A t \in valid_tips :
              /\ t \in orphan_pool
              /\ Has(validations_mapping, t)
              /\ validations_mapping[t] = "ValidChainTip"

\* The block b, not known to the engine, has height parent.height + 1 and
\* its parent is an orphan with status BelongsToValidChain; the orphan
\* pool is not full.
ExtendsValidInner(b) ==
    /\ b \notin db \cup orphan_pool
    /\ ~OutOfWindow(b)
    /\ parent_hash(b) \in orphan_pool
    /\ Has(validations_mapping, parent_hash(b))
    /\ validations_mapping[parent_hash(b)] = "BelongsToValidChain"
    /\ block_height(b) = block_height(parent_hash(b)) + 1
    /\ Cardinality(orphan_pool) < MAX_ORPHANS

\* C33: appending a block whose parent is an orphan with status
\* BelongsToValidChain returns Ok and raises no fatal condition; the
\* block becomes the canonical tip by a switch or is an orphan with status
\* ValidChainTip, a member of valid_tips with the state of its path.
InnerParentAccepted ==
    [][(lastOp'.op = "append_block" /\ ExtendsValidInner(lastOp'.arg)) =>
          LET b == lastOp'.arg
          IN  /\ lastOp'.res = "Ok"
              /\ fatal' = ""
              /\ \/ b \in db'
                 \/ /\ b \in orphan_pool'
                    /\ Has(validations_mapping', b)
                    /\ validations_mapping'[b] \in {"ValidChainTip", "BelongsToValidChain"}
                    /\ (validations_mapping'[b] = "ValidChainTip" =>
                          /\ b \in valid_tips'
                          /\ Has(valid_tips_states', b)
                          /\ valid_tips_states'[b] = path_state(b))]_vars

\* The orphans of the fragment whose root is h.
fragment(h) == {o \in orphan_pool : pool_root(o) = h}
\* The orphans of the fragment of h that no orphan has as its parent.
childless(h) == {t \in fragment(h) : \A o \in orphan_pool : parent_hash(o) # t}

\* C34: every key h of disconnected_heads_mapping is an orphan whose
\* parent is neither canonical nor an orphan; its entry is exactly the set
\* of childless orphans of its fragment; disconnected_tips_mapping maps
\* exactly those tips to h; the tips have status DisconnectedTip and the
\* other orphans of the fragment BelongsToDisconnected.
DisconnectedMirror ==
    fatal = "" =>
        /\ \A h \in DOMAIN disconnected_heads_mapping :
              /\ h \in orphan_pool
              /\ parent_hash(h) \notin orphan_pool
              /\ ~OnCanonical(parent_hash(h))
              /\ disconnected_heads_mapping[h] = childless(h)
              /\ \A o \in fragment(h) :
                    /\ Has(validations_mapping, o)
                    /\ validations_mapping[o] =
                          IF o \in childless(h) THEN "DisconnectedTip"
                          ELSE "BelongsToDisconnected"
        /\ DOMAIN disconnected_tips_mapping =
              UNION {childless(h) : h \in DOMAIN disconnected_heads_mapping}
        /\ \A t \in DOMAIN disconnected_tips_mapping :
              t \in childless(disconnected_tips_mapping[t])

\* The block b, not known to the engine, has a parent that is unknown to
\* the engine, or an orphan of a disconnected fragment one height below
\* b; b is inside the height window and the orphan pool is not full.
JoinsDisconnected(b) ==
    /\ b \notin db \cup orphan_pool
    /\ ~OutOfWindow(b)
    /\ Cardinality(orphan_pool) < MAX_ORPHANS
    /\ \/ parent_hash(b) \notin db \cup orphan_pool \cup {NULL}
       \/ /\ parent_hash(b) \in orphan_pool
          /\ block_height(b) = block_height(parent_hash(b)) + 1
          /\ Has(validations_mapping, parent_hash(b))
          /\ validations_mapping[parent_hash(b)] \in {"DisconnectedTip", "BelongsToDisconnected"}

\* C35: appending a block whose parent is unknown or an orphan of a
\* disconnected fragment returns Ok and changes neither the canonical tip,
\* height, store, height index and state, nor the checkpoints and their
\* markers, nor valid_tips and valid_tips_states.
DisconnectedFrame ==
    [][(lastOp'.op = "append_block" /\ JoinsDisconnected(lastOp'.arg)) =>
          /\ lastOp'.res = "Ok"
          /\ fatal' = ""
          /\ lastOp'.arg \in orphan_pool'
          /\ UNCHANGED <<canonical_tip, height, canonical_tip_state, db, db_heights,
                         db_canonical_height, disk, disk_heights_checkpoints,
                         last_checkpoint_height, earliest_checkpoint_height,
                         valid_tips, valid_tips_states>>]_vars

\* The hashes the engine treats as valid chain orphans.
valid_orphans ==
    valid_tips \cup {o \in DOMAIN validations_mapping :
                        validations_mapping[o] \in {"ValidChainTip", "BelongsToValidChain"}}

\* The fatal conditions of the assertions that open attempt_switch,
\* attempt_attach_valid and write_block.
AssertMessages ==
    {"attempt_switch: candidate is not a valid tip",
     "attempt_switch: candidate is a disconnected head",
     "attempt_switch: candidate is a disconnected tip",
     "attempt_attach_valid: tip is not a valid tip",
     "attempt_attach_valid: tip is a disconnected head",
     "attempt_attach_valid: tip is a disconnected tip",
     "write_block: block is a disconnected head",
     "write_block: block is a disconnected tip",
     "write_block: parent is not the canonical tip"}

\* C36: no valid tip and no orphan with status ValidChainTip or
\* BelongsToValidChain is a key of disconnected_heads_mapping,
\* disconnected_tips_mapping or disconnected_heads_heights, and the
\* assertions of attempt_switch, attempt_attach_valid and write_block
\* never fail.
ValidNotDisconnected ==
    /\ fatal = "" =>
          valid_orphans \cap (DOMAIN disconnected_heads_mapping
                                 \cup DOMAIN disconnected_tips_mapping
                                 \cup DOMAIN disconnected_heads_heights) = {}
    /\ fatal \notin AssertMessages

\* The fatal conditions a chain switch can end in: the horizon walk, the
\* internal rewind and the lookup of the candidate's state.
SwitchFatal ==
    {"attempt_switch: ancestor is neither stored nor an orphan",
     "attempt_switch: the horizon walk never ends",
     "attempt_switch: rewind failed",
     "attempt_switch: candidate has no state",
     "rewind: parent is not stored",
     "rewind: no checkpoint id at last_checkpoint_height",
     "rewind: delete_checkpoint failed"}

\* C37: every chain switch started by append_block completes: it ends in
\* no fatal condition of the horizon walk, of the internal rewind or of
\* the candidate's state; when the call stripped canonical blocks, the
\* canonical tip is a stored block of the canonical height and every
\* stripped block is a valid chain orphan.
SwitchCompletes ==
    [][(lastOp'.op = "append_block" /\ fatal = "") =>
          /\ fatal' \notin SwitchFatal
          /\ (fatal' = "" /\ db \ db' # {}) =>
                /\ canonical_tip' \in db'
                /\ height' = block_height(canonical_tip')
                /\ height' > height
                /\ \A x \in db \ db' :
                      /\ x \in orphan_pool'
                      /\ Has(validations_mapping', x)
                      /\ validations_mapping'[x] \in {"ValidChainTip", "BelongsToValidChain"}]_vars

\* C38: with no public rewind in the history, after an append_block that
\* returned Ok no valid tip is higher than the canonical height plus
\* SWITCH_OFFSET.
BestChain ==
    (fatal = "" /\ lastOp.op = "append_block" /\ lastOp.res = "Ok") =>
        \A t \in valid_tips : block_height(t) <= height + SWITCH_OFFSET

\* An append_block returned Ok and left a valid tip exactly as high as the
\* canonical chain, which is at least two blocks long.
TipAtCanonicalHeight ==
    /\ fatal = "" /\ lastOp.op = "append_block" /\ lastOp.res = "Ok"
    /\ height >= 2
    /\ \E t \in valid_tips : block_height(t) = height + SWITCH_OFFSET

\* C39: every stored block, canonical or orphan, whose parent is stored
\* too is one height above its parent, whatever the order of arrival.
HeightLink ==
    fatal = "" =>
        \A b \in db \cup orphan_pool :
            parent_hash(b) \in db \cup orphan_pool =>
                block_height(b) = block_height(parent_hash(b)) + 1

\* C40: ChainRef::query returns a block only if the block is in the
\* canonical store during the call: a block served by the block cache is
\* stored at the time it is served, so that once a rewind or a switch
\* stripped it ChainRef::query answers as Chain::query does.
CacheCoherent ==
    \A r \in Readers :
        shared.served[r] # <<>> => shared.served[r][1].stored

====
